---- MODULE Spec2Model ----
(***************************************************************************)
(* A model of the Reddit Deduplicator content script (rededup): the        *)
(* Hamming metric, the BK-tree, the disjoint-set forest, the duplicate     *)
(* records and the DuplicateFinder clustering pass.                        *)
(***************************************************************************)
EXTENDS Integers, Sequences, FiniteSets, TLC

(***************************************************************************)
(* JavaScript 32-bit integer arithmetic.  A JS bitwise operator converts   *)
(* its operands with ToInt32 (the value modulo 2^32, read as a signed      *)
(* 32-bit integer); + - * are computed exactly on doubles.                 *)
(***************************************************************************)

\* Bit i (0..31) of the two's complement representation of the int32 x.
Bit(x, i) == IF i = 31 THEN (IF x < 0 THEN 1 ELSE 0) ELSE (x \div (2 ^ i)) % 2

RECURSIVE SumBits(_, _)
SumBits(f, i) == IF i < 0 THEN 0 ELSE f[i] * (2 ^ i) + SumBits(f, i - 1)

\* The int32 whose bits are f[0..31].
FromBits(f) == IF f[31] = 1 THEN (SumBits(f, 30) - 2147483647) - 1
               ELSE SumBits(f, 30)

\* a & b on int32 operands.
And32(a, b) == FromBits([i \in 0..31 |-> Bit(a, i) * Bit(b, i)])

\* a ^ b on int32 operands.
Xor32(a, b) == FromBits([i \in 0..31 |-> (Bit(a, i) + Bit(b, i)) % 2])

\* a >> k on an int32 operand (sign-propagating shift).
Shr32(a, k) == a \div (2 ^ k)

\* ToInt32(a - b) for an int32 a and 0 <= b < 2^31: the exact difference
\* wraps around when it is below -2^31.
SubToInt32(a, b) ==
    IF a >= 0 \/ a + 2147483647 + 1 >= b
    THEN a - b
    ELSE (((a + 2147483647) + 1) - b) + 2147483647 + 1

\* Byte j (0..3) of a non-negative int32.
ByteOf(x, j) == (x \div (256 ^ j)) % 256

\* ToInt32(x * y) for 0 <= x, y < 2^31: the exact product modulo 2^32, by
\* columns of byte products with carries.
MulToInt32(x, y) ==
    LET col(m) == LET RECURSIVE s(_)
                      s(j) == IF j > m THEN 0
                              ELSE ByteOf(x, j) * ByteOf(y, m - j) + s(j + 1)
                  IN s(0)
        t0 == col(0)
        t1 == col(1) + (t0 \div 256)
        t2 == col(2) + (t1 \div 256)
        t3 == col(3) + (t2 \div 256)
        r3 == t3 % 256
        low == (t0 % 256) + 256 * (t1 % 256) + 65536 * (t2 % 256)
    IN IF r3 >= 128 THEN (r3 - 256) * 16777216 + low
       ELSE r3 * 16777216 + low

\* Mutant of bitCount32: the second step masks with 0x55555555.
bitCount32_wrongMask(n) ==
    LET n1 == SubToInt32(n, And32(Shr32(n, 1), 1431655765))
        n2 == And32(n1, 1431655765) + And32(Shr32(n1, 2), 858993459)
    IN Shr32(MulToInt32(And32(n2 + Shr32(n2, 4), 252645135), 16843009), 24)

\* bitCount32(n): the number of 1 bits of a 32-bit integer.
bitCount32(n) ==
    LET n1 == SubToInt32(n, And32(Shr32(n, 1), 1431655765))
        n2 == And32(n1, 858993459) + And32(Shr32(n1, 2), 858993459)
    IN Shr32(MulToInt32(And32(n2 + Shr32(n2, 4), 252645135), 16843009), 24)

\* hdist(a1, a2): Hamming distance of two 64-bit values, each a pair of
\* int32 words.
hdist(a1, a2) ==
    bitCount32(Xor32(a1[1], a2[1])) + bitCount32(Xor32(a1[2], a2[2]))

(***************************************************************************)
(* Thumbnail hashes: an ArrayBuffer of 8 bytes, and its two typed views.   *)
(***************************************************************************)

\* One little-endian int32 read from bytes b[k+1..k+4].
Int32At(b, k) ==
    LET low == b[k + 1] + 256 * b[k + 2] + 65536 * b[k + 3]
    IN IF b[k + 4] >= 128 THEN (b[k + 4] - 256) * 16777216 + low
       ELSE b[k + 4] * 16777216 + low

\* new Int32Array(buffer): the two 32-bit words of an 8-byte buffer.
Int32Array(b) == <<Int32At(b, 0), Int32At(b, 4)>>

\* bufToString(buffer): the code units of the buffer read as a Uint16Array.
bufToString(b) == [k \in 1..4 |-> b[2 * k - 1] + 256 * b[2 * k]]

(***************************************************************************)
(* DSNode: the disjoint-set forest.  A node is named by a number; parent   *)
(* maps each constructed node to its parent or Null, rank to its rank.     *)
(***************************************************************************)
Null == -1

\* DSNode.find(): walks to the representative, pointing every visited node
\* to its grandparent (or parent) on the way.  Yields the rewritten parent
\* map and the representative.
RECURSIVE find(_, _)
find(parent, node) ==
    IF parent[node] = Null
    THEN [parent |-> parent, root |-> node]
    ELSE LET p == parent[node]
             gp == IF parent[p] # Null THEN parent[p] ELSE p
         IN find([parent EXCEPT ![node] = gp], p)

\* Mutant of findStep: a node whose parent is a representative is pointed
\* to itself.
findStep_toSelf(parent, node) ==
    LET p == parent[node]
    IN [parent |-> [parent EXCEPT
                       ![node] = IF parent[p] # Null THEN parent[p] ELSE node],
        node |-> p]

\* One turn of the loop of DSNode.find() with node.parent set:
\* node.parent = parent.parent || parent; node = parent.
findStep(parent, node) ==
    LET p == parent[node]
    IN [parent |-> [parent EXCEPT
                       ![node] = IF parent[p] # Null THEN parent[p] ELSE p],
        node |-> p]

\* Mutant of union: links the argument itself, not its representative.
union_noFindOther(ds, this, other) ==
    LET f1 == find(ds.parent, this)
        a == f1.root
        node == IF ds.rank[a] < ds.rank[other] THEN other ELSE a
        oth == IF ds.rank[a] < ds.rank[other] THEN a ELSE other
    IN IF a = other
       THEN [parent |-> f1.parent, rank |-> ds.rank, root |-> a]
       ELSE [parent |-> [f1.parent EXCEPT ![oth] = node],
             rank |-> IF ds.rank[node] = ds.rank[oth]
                      THEN [ds.rank EXCEPT ![node] = @ + 1] ELSE ds.rank,
             root |-> node]

\* Mutant of union: the rank of the surviving root is left as it was.
union_noRankIncrement(ds, this, other) ==
    LET f1 == find(ds.parent, this)
        f2 == find(f1.parent, other)
        a == f1.root
        b == f2.root
        node == IF ds.rank[a] < ds.rank[b] THEN b ELSE a
        oth == IF ds.rank[a] < ds.rank[b] THEN a ELSE b
    IN IF a = b
       THEN [parent |-> f2.parent, rank |-> ds.rank, root |-> a]
       ELSE [parent |-> [f2.parent EXCEPT ![oth] = node],
             rank |-> ds.rank,
             root |-> node]

\* DSNode.union(other): merges the trees of two nodes by rank.  ds is a
\* record with the parent and rank maps; yields both maps and the
\* representative after merging.
union(ds, this, other) ==
    LET f1 == find(ds.parent, this)
        f2 == find(f1.parent, other)
        a == f1.root
        b == f2.root
        node == IF ds.rank[a] < ds.rank[b] THEN b ELSE a
        oth == IF ds.rank[a] < ds.rank[b] THEN a ELSE b
    IN IF a = b
       THEN [parent |-> f2.parent, rank |-> ds.rank, root |-> a]
       ELSE [parent |-> [f2.parent EXCEPT ![oth] = node],
             rank |-> IF ds.rank[node] = ds.rank[oth]
                      THEN [ds.rank EXCEPT ![node] = @ + 1] ELSE ds.rank,
             root |-> node]

\* Thumbnail hashes (8 bytes each) at Hamming distances
\*        H0  H1  H3  H6  HFar
\*   H0    0   1   3   6   10
\*   H1        0   2   5   11
\*   H3            0   3    9
\*   H6                0   12
\* HFar has the sign bit of its second word set.
H0 == <<0, 0, 0, 0, 0, 0, 0, 0>>
H1 == <<1, 0, 0, 0, 0, 0, 0, 0>>
H3 == <<7, 0, 0, 0, 0, 0, 0, 0>>
H6 == <<63, 0, 0, 0, 0, 0, 0, 0>>
HFar == <<3, 0, 0, 0, 0, 0, 0, 255>>

HashBuffers == {H0, H1, H3, H6, HFar}

\* hdist is pure: its values on the hashes above, computed once.
HdistOnHashes ==
    [p \in {Int32Array(h) : h \in HashBuffers} \X
           {Int32Array(h) : h \in HashBuffers} |-> hdist(p[1], p[2])] @@ <<>>

\* hdist(a1, a2) on two hashes of the model.
hdistOf(a1, a2) == HdistOnHashes[<<a1, a2>>]

(***************************************************************************)
(* BKNode: the BK-tree.  A tree is the sequence of its nodes in creation   *)
(* order, node 1 the root; children maps each occupied distance slot to    *)
(* the position of the child.  The empty sequence is "no tree yet".        *)
(***************************************************************************)
BKNode(key, value) == [key |-> key, value |-> value, children |-> <<>>]

\* Mutant of addFrom: a key equal to the node's goes to a child like any
\* other.
RECURSIVE addFrom_noZeroCheck(_, _, _, _)
addFrom_noZeroCheck(bk, n, key, value) ==
    LET dist == hdistOf(bk[n].key, key)
    IN IF dist \notin DOMAIN bk[n].children
       THEN Append([bk EXCEPT ![n].children = @ @@ (dist :> (Len(bk) + 1))],
                   BKNode(key, value))
       ELSE addFrom_noZeroCheck(bk, bk[n].children[dist], key, value)

\* The loop of BKNode.add, from node n.
RECURSIVE addFrom(_, _, _, _)
addFrom(bk, n, key, value) ==
    LET dist == hdistOf(bk[n].key, key)
    IN IF dist = 0 THEN bk
       ELSE IF dist \notin DOMAIN bk[n].children
            THEN Append([bk EXCEPT ![n].children = @ @@ (dist :> (Len(bk) + 1))],
                        BKNode(key, value))
            ELSE addFrom(bk, bk[n].children[dist], key, value)

\* BKNode.add(key, value) on the root.
add(bk, key, value) == addFrom(bk, 1, key, value)

Abs(x) == IF x < 0 THEN -x ELSE x
Min(x, y) == IF x < y THEN x ELSE y

\* Mutant of findAll: only the first value is yielded.
findAll_firstOnly(bk, n, key, maxDist) ==
    IF hdistOf(bk[n].key, key) <= maxDist THEN <<bk[n].value>> ELSE <<>>

\* BKNode.findAll(key, maxDist) on node n: the values yielded, in order.
RECURSIVE findAll(_, _, _, _)
findAll(bk, n, key, maxDist) ==
    LET dist == hdistOf(bk[n].key, key)
        i0 == Abs(dist - maxDist)
        i1 == Min(dist + maxDist, 64)
        RECURSIVE slots(_)
        slots(i) == IF i > i1 THEN <<>>
                    ELSE (IF i \in DOMAIN bk[n].children
                          THEN findAll(bk, bk[n].children[i], key, maxDist)
                          ELSE <<>>) \o slots(i + 1)
    IN (IF dist <= maxDist THEN <<bk[n].value>> ELSE <<>>) \o slots(i0)

(***************************************************************************)
(* Sorted-array merging.  A link is named by its index symbol, so          *)
(* linkIndexComparator compares the names.                                 *)
(***************************************************************************)
\* Mutant of linkIndexComparator: every two links compare equal.
linkIndexComparator_allEqual == [link1 \in Int, link2 \in Int |-> 0]

linkIndexComparator == [link1 \in Int, link2 \in Int |-> link1 - link2]

\* Mutant of merge2: without the loop over what is left of l2.
merge2_withoutRestOfL2(l1, l2, compareFunction) ==
    LET RECURSIVE loop(_, _, _)
        loop(i, j, result) ==
            IF i <= Len(l1) /\ j <= Len(l2)
            THEN IF compareFunction[l1[i], l2[j]] <= 0
                 THEN loop(i + 1, j, Append(result, l1[i]))
                 ELSE loop(i, j + 1, Append(result, l2[j]))
            ELSE result \o SubSeq(l1, i, Len(l1))
    IN loop(1, 1, <<>>)

\* merge2(l1, l2, compareFunction)
merge2(l1, l2, compareFunction) ==
    LET RECURSIVE loop(_, _, _)
        loop(i, j, result) ==
            IF i <= Len(l1) /\ j <= Len(l2)
            THEN IF compareFunction[l1[i], l2[j]] <= 0
                 THEN loop(i + 1, j, Append(result, l1[i]))
                 ELSE loop(i, j + 1, Append(result, l2[j]))
            ELSE result \o SubSeq(l1, i, Len(l1)) \o SubSeq(l2, j, Len(l2))
    IN loop(1, 1, <<>>)

\* A.sort((l1, l2) => l1.length - l2.length): a stable sort by length.
RECURSIVE SortByLength(_)
SortByLength(A) ==
    IF Len(A) <= 1 THEN A
    ELSE LET rest == SortByLength(Tail(A))
             RECURSIVE ins(_)
             ins(k) == IF k <= Len(rest) /\ Len(rest[k]) < Len(A[1])
                       THEN ins(k + 1) ELSE k
             at == ins(1)
         IN SubSeq(rest, 1, at - 1) \o <<A[1]>> \o SubSeq(rest, at, Len(rest))

\* mergeK(A, compareFunction): merges the two shortest lists until one is
\* left.  S is A sorted by length, i the number of lists taken from S, B the
\* merged lists made so far and j the number of them taken again.
mergeK(A, compareFunction) ==
    IF Len(A) = 0 THEN <<>>
    ELSE IF Len(A) = 1 THEN A[1]
    ELSE IF Len(A) = 2 THEN merge2(A[1], A[2], compareFunction)
    ELSE
    LET S == SortByLength(A)
        fromA(i, j, B) ==
            \/ j = Len(B)
            \/ (i # Len(S) /\ Len(S[i + 1]) <= Len(B[j + 1]))
        RECURSIVE loop(_, _, _)
        loop(i, j, B) ==
            IF Len(B) = Len(S) - 1 THEN B[Len(B)]
            ELSE LET a1 == fromA(i, j, B)
                     l1 == IF a1 THEN S[i + 1] ELSE B[j + 1]
                     i1 == IF a1 THEN i + 1 ELSE i
                     j1 == IF a1 THEN j ELSE j + 1
                     a2 == fromA(i1, j1, B)
                     l2 == IF a2 THEN S[i1 + 1] ELSE B[j1 + 1]
                     i2 == IF a2 THEN i1 + 1 ELSE i1
                     j2 == IF a2 THEN j1 ELSE j1 + 1
                 IN loop(i2, j2, Append(B, merge2(l1, l2,
                                                   compareFunction)))
    IN loop(0, 0, <<>>)

\* links[0].sort(linkIndexComparator)
RECURSIVE SortByIndex(_)
SortByIndex(l) ==
    IF Len(l) <= 1 THEN l
    ELSE merge2(<<l[1]>>, SortByIndex(Tail(l)), linkIndexComparator)

(***************************************************************************)
(* DupRecord and DuplicateFinder.  A link (thing) is named by its index    *)
(* symbol, and so are the DSNode and the DupRecord constructed for it.     *)
(* A LinkInfo is <<>> for null, or <<info>> with info a record of thing,   *)
(* url, domain and thumbnailHash; an absent url or domain is "", an absent *)
(* thumbnailHash is <<>>.  The finder is a record df of its fields, the    *)
(* nodes' fields (parent, rank, dupRecord), the records and the page.      *)
(* node.dupRecord holds the ids of the records flatten() yields from it,   *)
(* in that order: <<>> once deleted, <<r>> for a single record.            *)
(***************************************************************************)

\* The key of the single thumbMap used when partitionByDomain is off.
SingleThumbMap == "thumbMap"

\* Mutant of DuplicateFinder: a BK-tree is used whatever the distance.
DuplicateFinder_alwaysBk(settings) ==
    [partitionByDomain |-> settings.partitionByDomain,
     maxHammingDistance |-> settings.maxHammingDistance,
     useBk |-> TRUE,
     urlMap |-> <<>>,
     thumbMaps |-> IF settings.partitionByDomain THEN <<>>
                   ELSE (SingleThumbMap :> [map |-> <<>>, bkMap |-> <<>>]),
     stats |-> [numWithDups |-> 0, totalDups |-> 0],
     parent |-> <<>>, rank |-> <<>>, dupRecord |-> <<>>,
     records |-> <<>>,
     display |-> <<>>,
     page |-> <<>>,
     thrown |-> FALSE]

\* new DuplicateFinder(pageType, settings), on a page with no links yet.
DuplicateFinder(settings) ==
    [partitionByDomain |-> settings.partitionByDomain,
     maxHammingDistance |-> settings.maxHammingDistance,
     useBk |-> settings.maxHammingDistance > 0,
     urlMap |-> <<>>,
     thumbMaps |-> IF settings.partitionByDomain THEN <<>>
                   ELSE (SingleThumbMap :> [map |-> <<>>, bkMap |-> <<>>]),
     stats |-> [numWithDups |-> 0, totalDups |-> 0],
     parent |-> <<>>, rank |-> <<>>, dupRecord |-> <<>>,
     records |-> <<>>,
     display |-> <<>>,
     page |-> <<>>,
     thrown |-> FALSE]

\* new DupRecord(link)
DupRecord(link) ==
    [links |-> <<link>>, index |-> link, showDuplicates |-> FALSE,
     taglineElt |-> "none", countElt |-> <<>>, linkElt |-> ""]

\* s without the element x.
RECURSIVE Without(_, _)
Without(s, x) ==
    IF s = <<>> THEN <<>>
    ELSE IF s[1] = x THEN Without(Tail(s), x)
    ELSE <<s[1]>> \o Without(Tail(s), x)

\* Mutant of mergeDsNodes: the node that stops being a representative keeps
\* its dupRecord.
mergeDsNodes_keepsRecord(st, n1, n2) ==
    LET df == st.df
        f1 == find(df.parent, n1)
        f2 == find(f1.parent, n2)
        node1 == f1.root
        node2 == f2.root
        u == union([parent |-> f2.parent, rank |-> df.rank], node1, node2)
    IN IF node1 = node2
       THEN [st EXCEPT !.df.parent = f2.parent]
       ELSE [df |-> [df EXCEPT !.parent = u.parent, !.rank = u.rank,
                               !.dupRecord[u.root] = df.dupRecord[node1]
                                                     \o df.dupRecord[node2]],
             merged |-> Append(Without(Without(st.merged, node1), node2),
                               u.root)]

\* DuplicateFinder.mergeDsNodes(node1, node2, merged).  st holds the finder
\* (df) and the merged set, in insertion order.
mergeDsNodes(st, n1, n2) ==
    LET df == st.df
        f1 == find(df.parent, n1)
        f2 == find(f1.parent, n2)
        node1 == f1.root
        node2 == f2.root
        u == union([parent |-> f2.parent, rank |-> df.rank], node1, node2)
    IN IF node1 = node2
       THEN [st EXCEPT !.df.parent = f2.parent]
       ELSE [df |-> [df EXCEPT !.parent = u.parent, !.rank = u.rank,
                               !.dupRecord = [[@ EXCEPT ![node1] = <<>>,
                                                        ![node2] = <<>>]
                                    EXCEPT ![u.root] = df.dupRecord[node1]
                                                       \o df.dupRecord[node2]]],
             merged |-> Append(Without(Without(st.merged, node1), node2),
                               u.root)]

\* DuplicateFinder.updateUrlMap(linkInfo, node, merged)
updateUrlMap(st, linkInfo, node) ==
    IF linkInfo.url \in DOMAIN st.df.urlMap
    THEN mergeDsNodes(st, st.df.urlMap[linkInfo.url], node)
    ELSE [st EXCEPT !.df.urlMap = @ @@ (linkInfo.url :> node)]

\* The domain of a link whose dataset has no domain (undefined).
NoDomain == "undefined"

\* Mutant of ThumbMapKey: one table whatever partitionByDomain says.
ThumbMapKey_oneTable(df, domain) == SingleThumbMap

\* The key of the table DuplicateFinder.getThumbMap(domain) returns:
\* domain || '' when the tables are partitioned by domain.
ThumbMapKey(df, domain) ==
    IF df.partitionByDomain
    THEN (IF domain = NoDomain THEN "" ELSE domain)
    ELSE SingleThumbMap

\* DuplicateFinder.getThumbMap(domain): the finder, with the domain's table
\* created when it was missing.
getThumbMap(df, domain) ==
    IF ThumbMapKey(df, domain) \in DOMAIN df.thumbMaps THEN df
    ELSE [df EXCEPT !.thumbMaps =
              @ @@ (ThumbMapKey(df, domain) :> [map |-> <<>>, bkMap |-> <<>>])]

\* The mergeDsNodes(node, otherNode, merged) calls of updateThumbMap's loop
\* over the nodes findAll yielded.
RECURSIVE MergeWithEach(_, _, _)
MergeWithEach(st, node, others) ==
    IF others = <<>> THEN st
    ELSE MergeWithEach(mergeDsNodes(st, node, others[1]), node, Tail(others))

\* Mutant of updateThumbMap: an exact hit is left unmerged.
updateThumbMap_noExactMerge(st, linkInfo, node) ==
    LET df0 == getThumbMap(st.df, linkInfo.domain)
        tk == ThumbMapKey(df0, linkInfo.domain)
        thumbMap == df0.thumbMaps[tk]
        hashStr == bufToString(linkInfo.thumbnailHash)
        st0 == [st EXCEPT !.df = df0]
        st1 == [st0 EXCEPT !.df.thumbMaps[tk].map = @ @@ (hashStr :> node)]
        bkMapKey == Int32Array(linkInfo.thumbnailHash)
    IN IF hashStr \in DOMAIN thumbMap.map
       THEN st0
       ELSE IF ~df0.useBk THEN st1
       ELSE IF thumbMap.bkMap = <<>>
            THEN [st1 EXCEPT !.df.thumbMaps[tk].bkMap =
                                 <<BKNode(bkMapKey, node)>>]
            ELSE [MergeWithEach(st1, node,
                      findAll(thumbMap.bkMap, 1, bkMapKey,
                              df0.maxHammingDistance))
                  EXCEPT !.df.thumbMaps[tk].bkMap = add(@, bkMapKey, node)]

\* Mutant of updateThumbMap: a fingerprint new to the table is added to the
\* BK-tree without the tree being queried.
updateThumbMap_noRadiusQuery(st, linkInfo, node) ==
    LET df0 == getThumbMap(st.df, linkInfo.domain)
        tk == ThumbMapKey(df0, linkInfo.domain)
        thumbMap == df0.thumbMaps[tk]
        hashStr == bufToString(linkInfo.thumbnailHash)
        st0 == [st EXCEPT !.df = df0]
        st1 == [st0 EXCEPT !.df.thumbMaps[tk].map = @ @@ (hashStr :> node)]
        bkMapKey == Int32Array(linkInfo.thumbnailHash)
    IN IF hashStr \in DOMAIN thumbMap.map
       THEN mergeDsNodes(st0, thumbMap.map[hashStr], node)
       ELSE IF ~df0.useBk THEN st1
       ELSE IF thumbMap.bkMap = <<>>
            THEN [st1 EXCEPT !.df.thumbMaps[tk].bkMap =
                                 <<BKNode(bkMapKey, node)>>]
            ELSE [st1 EXCEPT !.df.thumbMaps[tk].bkMap =
                                 add(@, bkMapKey, node)]

\* Mutant of updateThumbMap: an exact hit stores the new node in the table.
updateThumbMap_setOnHit(st, linkInfo, node) ==
    LET df0 == getThumbMap(st.df, linkInfo.domain)
        tk == ThumbMapKey(df0, linkInfo.domain)
        thumbMap == df0.thumbMaps[tk]
        hashStr == bufToString(linkInfo.thumbnailHash)
        st0 == [st EXCEPT !.df = df0]
        st1 == [st0 EXCEPT !.df.thumbMaps[tk].map = @ @@ (hashStr :> node)]
        bkMapKey == Int32Array(linkInfo.thumbnailHash)
    IN IF hashStr \in DOMAIN thumbMap.map
       THEN [mergeDsNodes(st0, thumbMap.map[hashStr], node)
             EXCEPT !.df.thumbMaps[tk].map[hashStr] = node]
       ELSE IF ~df0.useBk THEN st1
       ELSE IF thumbMap.bkMap = <<>>
            THEN [st1 EXCEPT !.df.thumbMaps[tk].bkMap =
                                 <<BKNode(bkMapKey, node)>>]
            ELSE [MergeWithEach(st1, node,
                      findAll(thumbMap.bkMap, 1, bkMapKey,
                              df0.maxHammingDistance))
                  EXCEPT !.df.thumbMaps[tk].bkMap = add(@, bkMapKey, node)]

\* DuplicateFinder.updateThumbMap(linkInfo, node, merged)
updateThumbMap(st, linkInfo, node) ==
    LET df0 == getThumbMap(st.df, linkInfo.domain)
        tk == ThumbMapKey(df0, linkInfo.domain)
        thumbMap == df0.thumbMaps[tk]
        hashStr == bufToString(linkInfo.thumbnailHash)
        st0 == [st EXCEPT !.df = df0]
        st1 == [st0 EXCEPT !.df.thumbMaps[tk].map = @ @@ (hashStr :> node)]
        bkMapKey == Int32Array(linkInfo.thumbnailHash)
    IN IF hashStr \in DOMAIN thumbMap.map
       THEN mergeDsNodes(st0, thumbMap.map[hashStr], node)
       ELSE IF ~df0.useBk THEN st1
       ELSE IF thumbMap.bkMap = <<>>
            THEN [st1 EXCEPT !.df.thumbMaps[tk].bkMap =
                                 <<BKNode(bkMapKey, node)>>]
            ELSE [MergeWithEach(st1, node,
                      findAll(thumbMap.bkMap, 1, bkMapKey,
                              df0.maxHammingDistance))
                  EXCEPT !.df.thumbMaps[tk].bkMap = add(@, bkMapKey, node)]

\* DuplicateFinder.processLink(linkInfo, merged); li is <<>> for null.
processLink(st, li) ==
    IF li = <<>> THEN st
    ELSE
    LET linkInfo == li[1]
        node == linkInfo.thing
        st0 == [st EXCEPT !.df.parent = @ @@ (node :> Null),
                          !.df.rank = @ @@ (node :> 0),
                          !.df.dupRecord = @ @@ (node :> <<node>>),
                          !.df.records = @ @@ (node :> DupRecord(node))]
        st1 == IF linkInfo.url # "" THEN updateUrlMap(st0, linkInfo, node)
               ELSE st0
    IN IF linkInfo.thumbnailHash # <<>>
       THEN updateThumbMap(st1, linkInfo, node)
       ELSE st1

\* The frame of a findAll generator that has not run yet: BKNode n, the
\* loop variable i still unset.
Unset == -1

\* next() on the generator findAll(key, maxDist) returned, on tree bk.
\* frames holds the frame of each nested findAll, the innermost last: the
\* BKNode n and the loop variable i.  The generator runs to its next yield
\* (value is <<v>>) or to its end (value is <<>>, no frame is left).
RECURSIVE findAllNext(_, _, _, _)
findAllNext(bk, frames, key, maxDist) ==
    IF frames = <<>> THEN [frames |-> <<>>, value |-> <<>>]
    ELSE
    LET top == Len(frames)
        n == frames[top].n
        i == frames[top].i
        dist == hdistOf(bk[n].key, key)
        i0 == Abs(dist - maxDist)
        i1 == Min(dist + maxDist, 64)
    IN IF i = Unset
       THEN IF dist <= maxDist
            THEN [frames |-> [frames EXCEPT ![top].i = i0],
                  value |-> <<bk[n].value>>]
            ELSE findAllNext(bk, [frames EXCEPT ![top].i = i0], key, maxDist)
       ELSE IF i > i1
            THEN findAllNext(bk, SubSeq(frames, 1, top - 1), key, maxDist)
            ELSE IF i \in DOMAIN bk[n].children
                 THEN findAllNext(bk,
                          Append([frames EXCEPT ![top].i = i + 1],
                                 [n |-> bk[n].children[i], i |-> Unset]),
                          key, maxDist)
                 ELSE findAllNext(bk, [frames EXCEPT ![top].i = i + 1],
                                  key, maxDist)

\* Whether updateThumbMap(linkInfo, node, merged) gets to its loop over
\* bkMap.findAll: the fingerprint misses the table, and the BK-tree is in
\* use and has a root.
ReachesLoop(df, li) ==
    /\ li # <<>>
    /\ li[1].thumbnailHash # <<>>
    /\ df.useBk
    /\ LET df0 == getThumbMap(df, li[1].domain)
           thumbMap == df0.thumbMaps[ThumbMapKey(df0, li[1].domain)]
       IN /\ bufToString(li[1].thumbnailHash) \notin DOMAIN thumbMap.map
          /\ thumbMap.bkMap # <<>>

\* Mutant of processLinkToLoop: the fingerprint is added to the BK-tree
\* before the tree is queried.
processLinkToLoop_addFirst(st, li) ==
    LET linkInfo == li[1]
        node == linkInfo.thing
        st0 == [st EXCEPT !.df.parent = @ @@ (node :> Null),
                          !.df.rank = @ @@ (node :> 0),
                          !.df.dupRecord = @ @@ (node :> <<node>>),
                          !.df.records = @ @@ (node :> DupRecord(node))]
        st1 == IF linkInfo.url # "" THEN updateUrlMap(st0, linkInfo, node)
               ELSE st0
        tk == ThumbMapKey(st1.df, linkInfo.domain)
    IN [st1 EXCEPT !.df.thumbMaps[tk].map =
                       @ @@ (bufToString(linkInfo.thumbnailHash) :> node),
                   !.df.thumbMaps[tk].bkMap =
                       add(@, Int32Array(linkInfo.thumbnailHash), node)]

\* processLink(linkInfo, merged) up to the loop over bkMap.findAll of
\* updateThumbMap, for a linkInfo that gets there: the node is made and
\* merged by URL, and the fingerprint is set in the table.
processLinkToLoop(st, li) ==
    LET linkInfo == li[1]
        node == linkInfo.thing
        st0 == [st EXCEPT !.df.parent = @ @@ (node :> Null),
                          !.df.rank = @ @@ (node :> 0),
                          !.df.dupRecord = @ @@ (node :> <<node>>),
                          !.df.records = @ @@ (node :> DupRecord(node))]
        st1 == IF linkInfo.url # "" THEN updateUrlMap(st0, linkInfo, node)
               ELSE st0
        tk == ThumbMapKey(st1.df, linkInfo.domain)
    IN [st1 EXCEPT !.df.thumbMaps[tk].map =
                       @ @@ (bufToString(linkInfo.thumbnailHash) :> node)]

\* moveThingAfter(thing, otherThing) on the page's sequence of links.
moveThingAfter(page, thing, otherThing) ==
    LET rest == Without(page, otherThing)
        at == CHOOSE k \in 1..Len(rest) : rest[k] = thing
    IN SubSeq(rest, 1, at) \o <<otherThing>> \o SubSeq(rest, at + 1, Len(rest))

\* Mutant of CountText: the primary is counted as well.
CountText_withPrimary(numDuplicates) ==
    <<numDuplicates + 1, "duplicates">>

\* The text of countElt: the number and the noun as written.
CountText(numDuplicates) ==
    <<numDuplicates, IF numDuplicates = 1 THEN "duplicate" ELSE "duplicates">>

\* Mutant of PlaceLinks: duplicates are hidden whatever showDuplicates is.
RECURSIVE PlaceLinks_hidden(_, _, _, _)
PlaceLinks_hidden(df, links, i, show) ==
    IF i > Len(links) THEN df
    ELSE PlaceLinks_hidden([df EXCEPT !.display[links[i]] = "none",
                                      !.page = moveThingAfter(@, links[i - 1],
                                                              links[i])],
                           links, i + 1, show)

\* The loop of DupRecord.updateLinks over links[1..]: sets the display of
\* each duplicate and moves it after its predecessor.
RECURSIVE PlaceLinks(_, _, _, _)
PlaceLinks(df, links, i, show) ==
    IF i > Len(links) THEN df
    ELSE PlaceLinks([df EXCEPT !.display[links[i]] =
                                   IF show THEN "" ELSE "none",
                               !.page = moveThingAfter(@, links[i - 1],
                                                       links[i])],
                    links, i + 1, show)

\* Mutant of updateLinks: this.links is left as it was.
updateLinks_sameLinks(df, r, links) ==
    IF links[1] # df.records[r].links[1]
    THEN [df EXCEPT !.thrown = TRUE]
    ELSE LET rec == df.records[r]
             placed == PlaceLinks(df, links, 2, rec.showDuplicates)
         IN [placed EXCEPT !.records[r] =
                [rec EXCEPT !.taglineElt =
                                IF @ = "none" THEN "attached" ELSE @,
                            !.linkElt =
                                IF rec.taglineElt = "none"
                                THEN (IF rec.showDuplicates THEN "hide"
                                      ELSE "show")
                                ELSE @,
                            !.countElt = CountText(Len(links) - 1)]]

\* DupRecord.updateLinks(links, pageType) on record r, with initTagline;
\* a "Primary link mismatch" sets thrown and changes nothing.
updateLinks(df, r, links) ==
    IF links[1] # df.records[r].links[1]
    THEN [df EXCEPT !.thrown = TRUE]
    ELSE LET rec == df.records[r]
             placed == PlaceLinks(df, links, 2, rec.showDuplicates)
         IN [placed EXCEPT !.records[r] =
                [rec EXCEPT !.links = links,
                            !.taglineElt =
                                IF @ = "none" THEN "attached" ELSE @,
                            !.linkElt =
                                IF rec.taglineElt = "none"
                                THEN (IF rec.showDuplicates THEN "hide"
                                      ELSE "show")
                                ELSE @,
                            !.countElt = CountText(Len(links) - 1)]]

\* Mutant of onclick: the loop starts at the primary link.
onclick_fromPrimary(df, r) ==
    LET show == ~df.records[r].showDuplicates
        links == df.records[r].links
    IN [df EXCEPT !.records[r].showDuplicates = show,
                  !.records[r].linkElt = IF show THEN "hide" ELSE "show",
                  !.display = [t \in DOMAIN @ |->
                                  IF \E i \in 1..Len(links) : links[i] = t
                                  THEN (IF show THEN "" ELSE "none")
                                  ELSE @[t]]]

\* linkElt.onclick of record r, set by DupRecord.initTagline.
onclick(df, r) ==
    LET show == ~df.records[r].showDuplicates
        links == df.records[r].links
    IN [df EXCEPT !.records[r].showDuplicates = show,
                  !.records[r].linkElt = IF show THEN "hide" ELSE "show",
                  !.display = [t \in DOMAIN @ |->
                                  IF \E i \in 2..Len(links) : links[i] = t
                                  THEN (IF show THEN "" ELSE "none")
                                  ELSE @[t]]]

\* Mutant of PrimaryOf: the record of largest index.
RECURSIVE PrimaryOf_largestIndex(_, _, _)
PrimaryOf_largestIndex(records, dupRecords, best) ==
    IF dupRecords = <<>> THEN best
    ELSE PrimaryOf_largestIndex(records, Tail(dupRecords),
             IF records[dupRecords[1]].index > records[best].index
             THEN dupRecords[1] ELSE best)

\* The record of smallest index among dupRecords, the first on a tie.
RECURSIVE PrimaryOf(_, _, _)
PrimaryOf(records, dupRecords, best) ==
    IF dupRecords = <<>> THEN best
    ELSE PrimaryOf(records, Tail(dupRecords),
                   IF records[dupRecords[1]].index < records[best].index
                   THEN dupRecords[1] ELSE best)

\* Mutant of LinkLists: the lists of records with duplicates are left out.
LinkLists_singlesOnly(records, dupRecords, singles, lists) ==
    <<SortByIndex([k \in 1..Len(dupRecords) |->
                      records[dupRecords[k]].links[1]])>>

\* The list of lists processLinks hands to mergeK: first the links of the
\* records without duplicates, then the link list of each other record.
RECURSIVE LinkLists(_, _, _, _)
LinkLists(records, dupRecords, singles, lists) ==
    IF dupRecords = <<>> THEN <<SortByIndex(singles)>> \o lists
    ELSE LET l == records[dupRecords[1]].links
         IN IF Len(l) = 1
            THEN LinkLists(records, Tail(dupRecords), Append(singles, l[1]),
                           lists)
            ELSE LinkLists(records, Tail(dupRecords), singles,
                           Append(lists, l))

\* inBatch, as processLinks computes it.
InBatch(index, startIndex, endIndex) ==
    index >= startIndex /\ index <= endIndex

\* Mutant of UpdateRecords: an absorbed record that had duplicates is not
\* taken off numWithDups.
RECURSIVE UpdateRecords_noDecrement(_, _, _, _, _, _)
UpdateRecords_noDecrement(acc, old, dupRecords, primaryRecord, mergedLinks, range) ==
    IF dupRecords = <<>> \/ acc.df.thrown THEN acc
    ELSE
    LET r == dupRecords[1]
        hasDups == Len(old[r].links) > 1
        inBatch == InBatch(old[r].index, range[1], range[2])
        n == IF inBatch THEN 1 ELSE 0
        next ==
            IF r = primaryRecord
            THEN [df |-> updateLinks(
                     [acc.df EXCEPT !.stats.numWithDups =
                                        IF hasDups THEN @ ELSE @ + 1],
                     r, mergedLinks),
                  batchStats |->
                     [acc.batchStats EXCEPT !.numWithDups =
                                        IF hasDups THEN @ ELSE @ + n]]
            ELSE [df |-> [acc.df EXCEPT
                     !.stats.totalDups = @ + 1,
                     !.records[r].taglineElt =
                         IF @ = "none" THEN @ ELSE "removed"],
                  batchStats |->
                     [acc.batchStats EXCEPT !.totalDups = @ + n]]
    IN UpdateRecords_noDecrement(next, old, Tail(dupRecords), primaryRecord,
                                 mergedLinks, range)

\* The loop of processLinks over the records of one merged node: updates
\* the stats and the page.  acc holds the finder and the batch stats, old
\* the records as they were before the loop, range the batch's
\* <<startIndex, endIndex>>.  A throw in updateLinks ends the loop.
RECURSIVE UpdateRecords(_, _, _, _, _, _)
UpdateRecords(acc, old, dupRecords, primaryRecord, mergedLinks, range) ==
    IF dupRecords = <<>> \/ acc.df.thrown THEN acc
    ELSE
    LET r == dupRecords[1]
        hasDups == Len(old[r].links) > 1
        inBatch == InBatch(old[r].index, range[1], range[2])
        n == IF inBatch THEN 1 ELSE 0
        next ==
            IF r = primaryRecord
            THEN [df |-> updateLinks(
                     [acc.df EXCEPT !.stats.numWithDups =
                                        IF hasDups THEN @ ELSE @ + 1],
                     r, mergedLinks),
                  batchStats |->
                     [acc.batchStats EXCEPT !.numWithDups =
                                        IF hasDups THEN @ ELSE @ + n]]
            ELSE [df |-> [acc.df EXCEPT
                     !.stats.numWithDups = IF hasDups THEN @ - 1 ELSE @,
                     !.stats.totalDups = @ + 1,
                     !.records[r].taglineElt =
                         IF @ = "none" THEN @ ELSE "removed"],
                  batchStats |->
                     [acc.batchStats EXCEPT !.totalDups = @ + n]]
    IN UpdateRecords(next, old, Tail(dupRecords), primaryRecord, mergedLinks,
                     range)

\* The second loop of processLinks, over the merged nodes in the order of
\* the set.
RECURSIVE MergeRecords(_, _, _)
MergeRecords(acc, merged, range) ==
    IF merged = <<>> \/ acc.df.thrown THEN acc
    ELSE
    LET node == merged[1]
        dupRecords == acc.df.dupRecord[node]
        primaryRecord == PrimaryOf(acc.df.records, dupRecords, dupRecords[1])
        links == LinkLists(acc.df.records, dupRecords, <<>>, <<>>)
        mergedLinks == mergeK(links, linkIndexComparator)
        done == UpdateRecords(acc, acc.df.records, dupRecords, primaryRecord,
                              mergedLinks, range)
    IN IF done.df.thrown THEN done
       ELSE MergeRecords([done EXCEPT !.df.dupRecord[node] =
                                          <<primaryRecord>>],
                         Tail(merged), range)

\* The first loop of processLinks: processLink on each linkInfo in turn.
RECURSIVE ProcessEach(_, _)
ProcessEach(st, linkInfos) ==
    IF linkInfos = <<>> THEN st
    ELSE ProcessEach(processLink(st, linkInfos[1]), Tail(linkInfos))

\* <<startIndex, endIndex>> of processLinks, from the first non-null
\* linkInfo; <<0, 0>> stands for undefined (no record is looked at then).
RECURSIVE BatchRange(_, _)
BatchRange(linkInfos, i) ==
    IF i > Len(linkInfos) THEN <<0, 0>>
    ELSE IF linkInfos[i] # <<>>
         THEN <<linkInfos[i][1].thing - (i - 1),
                linkInfos[i][1].thing - (i - 1) + Len(linkInfos)>>
         ELSE BatchRange(linkInfos, i + 1)

\* DuplicateFinder.processLinks(linkInfos): the finder afterwards and the
\* batch stats returned.
processLinks(df, linkInfos) ==
    LET st == ProcessEach([df |-> df, merged |-> <<>>], linkInfos)
    IN MergeRecords([df |-> st.df,
                     batchStats |-> [numWithDups |-> 0, totalDups |-> 0]],
                    st.merged, BatchRange(linkInfos, 1))

\* The message logStats(stats, batchStats, ...) writes.
logStats(stats, batchStats) ==
    IF batchStats.totalDups = 0 THEN "No duplicates found"
    ELSE IF batchStats.totalDups = stats.totalDups THEN "Found"
    ELSE "Found, total"

(***************************************************************************)
(* The earlier version of the content script (rededup.js): a DupRecord     *)
(* holds its primary link (thing) and the list of its duplicates, and      *)
(* mergeDuplicates merges two records as soon as their nodes are united.   *)
(* DSNode, hdist, BKNode and getThumbMap are the same code as above.       *)
(* afterMerge collects, for the properties, the stats, records, dupRecord  *)
(* and parent fields as they are after each mergeDuplicates call that      *)
(* merged.                                                                 *)
(***************************************************************************)

\* new DuplicateFinder(pageType, settings), with main's stats object.
DuplicateFinderEarlier(settings) ==
    [deduplicateThumbs |-> settings.deduplicateThumbs,
     partitionByDomain |-> settings.deduplicateThumbs
                           /\ settings.partitionByDomain,
     maxHammingDistance |-> settings.maxHammingDistance,
     useBk |-> settings.deduplicateThumbs /\ settings.maxHammingDistance > 0,
     urlMap |-> <<>>,
     thumbMaps |-> IF settings.deduplicateThumbs /\ ~settings.partitionByDomain
                   THEN (SingleThumbMap :> [map |-> <<>>, bkMap |-> <<>>])
                   ELSE <<>>,
     stats |-> [numWithDups |-> 0, totalDups |-> 0],
     parent |-> <<>>, rank |-> <<>>, dupRecord |-> <<>>,
     records |-> <<>>,
     display |-> <<>>,
     page |-> <<>>,
     thrown |-> FALSE,
     done |-> FALSE,
     afterMerge |-> <<>>]

\* new DupRecord(thing)
DupRecordEarlier(thing) ==
    [thing |-> thing, index |-> thing, duplicates |-> <<>>,
     showDuplicates |-> FALSE,
     taglineElt |-> "none", countElt |-> <<>>, linkElt |-> ""]

\* Mutant of mergeDupLists: the other record's primary link is put last.
mergeDupLists_primaryLast(duplicates, otherThing, otherDuplicates) ==
    merge2(duplicates, otherDuplicates, linkIndexComparator)
        \o <<otherThing>>

\* DupRecord.mergeDupLists(duplicates, otherThing, otherDuplicates): the
\* elements yielded.  x is duplicates[nx - 1]; y is otherThing for ny = 0
\* and otherDuplicates[ny] after that (positions from 1 here).
mergeDupLists(duplicates, otherThing, otherDuplicates) ==
    LET yAt(ny) == IF ny = 0 THEN otherThing ELSE otherDuplicates[ny]
        RECURSIVE loop(_, _, _)
        loop(nx, ny, out) ==
            IF nx <= Len(duplicates) /\ ny <= Len(otherDuplicates)
            THEN IF duplicates[nx] < yAt(ny)
                 THEN loop(nx + 1, ny, Append(out, duplicates[nx]))
                 ELSE loop(nx, ny + 1, Append(out, yAt(ny)))
            ELSE IF nx <= Len(duplicates)
                 THEN out \o SubSeq(duplicates, nx, Len(duplicates))
                 ELSE IF ny = 0 THEN Append(out, otherThing) \o otherDuplicates
                      ELSE out \o SubSeq(otherDuplicates, ny,
                                         Len(otherDuplicates))
    IN loop(1, 0, <<>>)

\* The text of countElt in the earlier version.
CountTextEarlier(numDuplicates) ==
    <<numDuplicates, IF numDuplicates > 1 THEN "duplicates" ELSE "duplicate">>

\* DupRecord.merge(other, pageType, stats) on records r (this) and o.
merge(df, r, o) ==
    LET this == df.records[r]
        other == df.records[o]
        duplicates == mergeDupLists(this.duplicates, other.thing,
                                    other.duplicates)
        counted == [df EXCEPT
            !.stats.numWithDups =
                (IF this.duplicates = <<>> THEN @ + 1 ELSE @)
                - (IF other.duplicates # <<>> THEN 1 ELSE 0),
            !.stats.totalDups = @ + 1]
        placed == PlaceLinks(counted, <<this.thing>> \o duplicates, 2,
                             this.showDuplicates)
    IN [placed EXCEPT
           !.records[r] =
               [this EXCEPT !.duplicates = duplicates,
                            !.taglineElt =
                                IF @ = "none" THEN "attached" ELSE @,
                            !.linkElt =
                                IF this.taglineElt = "none"
                                THEN (IF this.showDuplicates THEN "hide"
                                      ELSE "show")
                                ELSE @,
                            !.countElt = CountTextEarlier(Len(duplicates))],
           !.records[o] =
               [other EXCEPT !.taglineElt = "none", !.countElt = <<>>,
                             !.linkElt = ""]]

\* Mutant of SmallerIndexFirst: the records are taken as given.
SmallerIndexFirst_asGiven(records, r1, r2) == <<r1, r2>>

\* Mutant of the swap in mergeDuplicates: the record of the larger index
\* comes first.
SmallerIndexFirst_largerFirst(records, r1, r2) ==
    IF records[r2].index < records[r1].index THEN <<r1, r2>> ELSE <<r2, r1>>

\* <<dupRecord, otherRecord>> of mergeDuplicates: the record of smaller
\* index first, node1's on a tie.
SmallerIndexFirst(records, r1, r2) ==
    IF records[r2].index < records[r1].index THEN <<r2, r1>> ELSE <<r1, r2>>

\* mergeDuplicates(node1, node2, pageType, stats)
mergeDuplicates(df, n1, n2) ==
    LET f1 == find(df.parent, n1)
        f2 == find(f1.parent, n2)
        node1 == f1.root
        node2 == f2.root
        u == union([parent |-> f2.parent, rank |-> df.rank], node1, node2)
        r1 == df.dupRecord[node1][1]
        r2 == df.dupRecord[node2][1]
        dupRecord == SmallerIndexFirst(df.records, r1, r2)[1]
        otherRecord == SmallerIndexFirst(df.records, r1, r2)[2]
        merged == merge([df EXCEPT !.parent = u.parent, !.rank = u.rank],
                        dupRecord, otherRecord)
        attached == [merged EXCEPT
            !.dupRecord = [[@ EXCEPT ![node1] = <<>>, ![node2] = <<>>]
                           EXCEPT ![u.root] = <<dupRecord>>]]
    IN IF node1 = node2
       THEN [df EXCEPT !.parent = f2.parent]
       ELSE [attached EXCEPT !.afterMerge =
                Append(@, [stats |-> attached.stats,
                           records |-> attached.records,
                           dupRecord |-> attached.dupRecord,
                           parent |-> attached.parent])]

\* The mergeDuplicates(node, otherNode, ...) calls of updateThumbMap's loop.
RECURSIVE MergeDuplicatesWithEach(_, _, _)
MergeDuplicatesWithEach(df, node, others) ==
    IF others = <<>> THEN df
    ELSE MergeDuplicatesWithEach(mergeDuplicates(df, node, others[1]), node,
                                 Tail(others))

\* DuplicateFinder.updateThumbMap(linkInfo, node, stats), earlier version.
updateThumbMapEarlier(df, linkInfo, node) ==
    LET df0 == getThumbMap(df, linkInfo.domain)
        tk == ThumbMapKey(df0, linkInfo.domain)
        thumbMap == df0.thumbMaps[tk]
        hashStr == bufToString(linkInfo.thumbnailHash)
        df1 == [df0 EXCEPT !.thumbMaps[tk].map = @ @@ (hashStr :> node)]
        bkMapKey == Int32Array(linkInfo.thumbnailHash)
    IN IF hashStr \in DOMAIN thumbMap.map
       THEN mergeDuplicates(df0, thumbMap.map[hashStr], node)
       ELSE IF ~df0.useBk THEN df1
       ELSE IF thumbMap.bkMap = <<>>
            THEN [df1 EXCEPT !.thumbMaps[tk].bkMap =
                                 <<BKNode(bkMapKey, node)>>]
            ELSE [MergeDuplicatesWithEach(df1, node,
                      findAll(thumbMap.bkMap, 1, bkMapKey,
                              df0.maxHammingDistance))
                  EXCEPT !.thumbMaps[tk].bkMap = add(@, bkMapKey, node)]

\* DuplicateFinder.processLink(linkInfo, stats), earlier version.
processLinkEarlier(df, li) ==
    IF li = <<>> THEN df
    ELSE
    LET linkInfo == li[1]
        node == linkInfo.thing
        df0 == [df EXCEPT !.parent = @ @@ (node :> Null),
                          !.rank = @ @@ (node :> 0),
                          !.dupRecord = @ @@ (node :> <<node>>),
                          !.records = @ @@ (node :> DupRecordEarlier(node))]
        df1 == IF linkInfo.url = "" THEN df0
               ELSE IF linkInfo.url \in DOMAIN df0.urlMap
                    THEN mergeDuplicates(df0, df0.urlMap[linkInfo.url], node)
                    ELSE [df0 EXCEPT !.urlMap = @ @@ (linkInfo.url :> node)]
    IN IF df.deduplicateThumbs /\ linkInfo.thumbnailHash # <<>>
       THEN updateThumbMapEarlier(df1, linkInfo, node)
       ELSE df1

\* The loop of main, earlier version: processLink on each linkInfo.
RECURSIVE mainLoopEarlier(_, _)
mainLoopEarlier(df, linkInfos) ==
    IF linkInfos = <<>> THEN df
    ELSE mainLoopEarlier(processLinkEarlier(df, linkInfos[1]),
                         Tail(linkInfos))

(***************************************************************************)
(* Settings: per-domain thumbnail settings, kept in a trie of domain       *)
(* labels.  A trie is the set of its nodes, each named by the key sequence *)
(* that leads to it; a value is <<>> for null and <<v>> otherwise.         *)
(***************************************************************************)

\* The characters of each domain name of the model.
Chars ==
    [d \in {"", "x", "y", "ax", "a.x", "b.a.x"} |->
        CASE d = "" -> <<>>
          [] d = "x" -> <<"x">>
          [] d = "y" -> <<"y">>
          [] d = "ax" -> <<"a", "x">>
          [] d = "a.x" -> <<"a", ".", "x">>
          [] d = "b.a.x" -> <<"b", ".", "a", ".", "x">>]

\* String.prototype.split(separator), on the characters of a string.
RECURSIVE split(_, _)
split(str, separator) ==
    IF \A k \in 1..Len(str) : str[k] # separator THEN <<str>>
    ELSE LET k == CHOOSE i \in 1..Len(str) :
                      /\ str[i] = separator
                      /\ \A m \in 1..(i - 1) : str[m] # separator
         IN <<SubSeq(str, 1, k - 1)>>
                \o split(SubSeq(str, k + 1, Len(str)), separator)

\* Array.prototype.reverse()
reverse(a) == [k \in 1..Len(a) |-> a[Len(a) + 1 - k]]

\* Settings._domainKey(domain): the labels of the domain, top level first.
domainKey(domain) ==
    LET labels == split(Chars[domain], ".")
    IN reverse(IF labels[Len(labels)] = <<>>
               THEN SubSeq(labels, 1, Len(labels) - 1)
               ELSE labels)

\* new TrieMap()
TrieMap == [nodes |-> (<<>> :> [rank |-> 0, value |-> <<>>]), thrown |-> FALSE]

\* The nodes put creates on the way to keys, down from the first k keys.
RECURSIVE WithPath(_, _, _)
WithPath(nodes, keys, k) ==
    IF k > Len(keys) THEN nodes
    ELSE WithPath(IF SubSeq(keys, 1, k) \in DOMAIN nodes THEN nodes
                  ELSE nodes @@ (SubSeq(keys, 1, k) :>
                                    [rank |-> nodes[SubSeq(keys, 1, k - 1)].rank
                                              + 1,
                                     value |-> <<>>]),
                  keys, k + 1)

\* TrieMap.put(keys, value)
triePut(trie, keys, value) ==
    IF value = <<>> THEN [trie EXCEPT !.thrown = TRUE]
    ELSE [trie EXCEPT !.nodes =
              [WithPath(@, keys, 1) EXCEPT ![keys].value = value]]

\* What findAll yields from the k-th key on.
RECURSIVE FindAllFrom(_, _, _)
FindAllFrom(nodes, keys, k) ==
    IF k > Len(keys) \/ SubSeq(keys, 1, k) \notin DOMAIN nodes THEN <<>>
    ELSE (IF nodes[SubSeq(keys, 1, k)].value # <<>>
          THEN <<<<nodes[SubSeq(keys, 1, k)].rank,
                   nodes[SubSeq(keys, 1, k)].value>>>>
          ELSE <<>>)
         \o FindAllFrom(nodes, keys, k + 1)

\* TrieMap.findAll(keys): the [rank, value] matches, shortest prefix first.
trieFindAll(trie, keys) ==
    (IF trie.nodes[<<>>].value # <<>>
     THEN <<<<trie.nodes[<<>>].rank, trie.nodes[<<>>].value>>>>
     ELSE <<>>)
    \o FindAllFrom(trie.nodes, keys, 1)

\* Mutant of trieFind: the first match instead of the last.
trieFind_first(trie, keys) ==
    IF trieFindAll(trie, keys) = <<>> THEN <<>>
    ELSE trieFindAll(trie, keys)[1]

\* TrieMap.find(keys): the last match, <<>> for null.
trieFind(trie, keys) ==
    IF trieFindAll(trie, keys) = <<>> THEN <<>>
    ELSE trieFindAll(trie, keys)[Len(trieFindAll(trie, keys))]

\* The puts of the loop over settings.domainSettings, from the k-th pair on;
\* a pair is <<domain, deduplicateThumbs>>.
RECURSIVE PutDomainSettings(_, _, _)
PutDomainSettings(trie, domainSettings, k) ==
    IF k > Len(domainSettings) THEN trie
    ELSE PutDomainSettings(
             IF domainSettings[k][2] = <<>> THEN trie
             ELSE triePut(trie, domainKey(domainSettings[k][1]),
                          domainSettings[k][2]),
             domainSettings, k + 1)

\* Settings._domainTrie
domainTrie(settings) ==
    PutDomainSettings(triePut(TrieMap, <<>>, <<settings.deduplicateThumbs>>),
                      settings.domainSettings, 1)

\* Settings.shouldProcessThumbnail(domain), with the _domainCache it leaves.
shouldProcessThumbnail(settings, domainCache, domain) ==
    LET d == IF domain = NoDomain THEN "" ELSE domain
        match == trieFind(domainTrie(settings), domainKey(d))
    IN IF d \in DOMAIN domainCache
       THEN [result |-> domainCache[d], domainCache |-> domainCache,
             thrown |-> FALSE]
       ELSE IF match = <<>>
            THEN [result |-> FALSE, domainCache |-> domainCache,
                  thrown |-> TRUE]
            ELSE [result |-> match[2][1],
                  domainCache |-> domainCache @@ (d :> match[2][1]),
                  thrown |-> FALSE]

(***************************************************************************)
(* The content script's asynchronous part: getLinks, getLinkInfo and the   *)
(* promises processBatch waits for.  A link of the page is a record        *)
(* [visible, url, domain, thumbnail]: whether it has an offsetParent, its  *)
(* dataset, and the hash of its thumbnail image (<<>> with no image).      *)
(* A promise is [settled, value].                                          *)
(***************************************************************************)

\* PageType
LISTING_PAGE == "listing page"
SEARCH_PAGE == "search page"
LEGACY_SEARCH_PAGE == "legacy search page"

\* getPageInfo(), for the classes of document.body: the container ("" for
\* none) and the page type.
getPageInfo(classList) ==
    IF classList = {} THEN [container |-> "", pageType |-> "no body class"]
    ELSE IF "single-page" \in classList
    THEN [container |-> "", pageType |-> "single page"]
    ELSE IF "listing-page" \in classList
    THEN [container |-> "#siteTable", pageType |-> LISTING_PAGE]
    ELSE IF "combined-search-page" \in classList
    THEN [container |-> ".search-result-group", pageType |-> SEARCH_PAGE]
    ELSE IF "search-page" \in classList
    THEN [container |-> "#siteTable", pageType |-> LEGACY_SEARCH_PAGE]
    ELSE [container |-> "", pageType |-> "other"]

\* getLinks(container, pageType): "" when it returns the links, what it
\* throws otherwise.
getLinks(pageType) ==
    IF pageType \in {LISTING_PAGE, SEARCH_PAGE} THEN ""
    ELSE "Invalid page type"

Unsettled == [settled |-> FALSE, value |-> <<>>]

Fulfilled(value) == [settled |-> TRUE, value |-> value]

\* Mutant of getLinkInfo: the thumbnail is hashed whatever the settings.
getLinkInfo_noGate(thing, elt, pageType, settings, domainCache) ==
    IF ~elt.visible
    THEN [promise |-> Fulfilled(<<>>), domainCache |-> domainCache]
    ELSE IF elt.thumbnail # <<>>
         THEN [promise |-> Unsettled, domainCache |-> domainCache]
         ELSE [promise |-> Fulfilled(<<[thing |-> thing, url |-> elt.url,
                                        domain |-> elt.domain,
                                        thumbnailHash |-> <<>>]>>),
               domainCache |-> domainCache]

\* getLinkInfo(thing, pageType, settings) on a listing or legacy search
\* page, up to its await: the promise it returns, settled unless it waits
\* for fetchImageAndGetHash, and the _domainCache it leaves.
getLinkInfo(thing, elt, pageType, settings, domainCache) ==
    IF ~elt.visible
    THEN [promise |-> Fulfilled(<<>>), domainCache |-> domainCache]
    ELSE LET should == shouldProcessThumbnail(settings, domainCache,
                                              elt.domain)
         IN IF should.result /\ elt.thumbnail # <<>>
            THEN [promise |-> Unsettled, domainCache |-> should.domainCache]
            ELSE [promise |-> Fulfilled(<<[thing |-> thing, url |-> elt.url,
                                           domain |-> elt.domain,
                                           thumbnailHash |-> <<>>]>>),
                  domainCache |-> should.domainCache]

\* Mutant of getLinkInfoAfterFetch: a failed hash resolves to null.
getLinkInfoAfterFetch_null(thing, elt, response) ==
    IF response = <<>> THEN <<>>
    ELSE <<[thing |-> thing, url |-> elt.url, domain |-> elt.domain,
            thumbnailHash |-> response[1]]>>

\* What getLinkInfo resolves to once fetchImageAndGetHash has returned the
\* hash response[1], or has thrown (response is <<>>): the catch block
\* leaves linkInfo without a thumbnailHash.
getLinkInfoAfterFetch(thing, elt, response) ==
    <<[thing |-> thing, url |-> elt.url, domain |-> elt.domain,
       thumbnailHash |-> IF response = <<>> THEN <<>> ELSE response[1]]>>

\* Array.from(links, thing => getLinkInfo(thing, pageType, settings)), from
\* the k-th link on; acc holds the promises so far and the _domainCache.
RECURSIVE GetLinkInfos(_, _, _, _, _, _)
GetLinkInfos(elts, k, first, pageType, settings, acc) ==
    IF k > Len(elts) THEN acc
    ELSE LET g == getLinkInfo(first + k - 1, elts[k], pageType, settings,
                              acc.domainCache)
         IN GetLinkInfos(elts, k + 1, first, pageType, settings,
                         [values |-> Append(acc.values, g.promise),
                          domainCache |-> g.domainCache])

\* Mutant of PromiseAll: values are kept in the order they arrive.
PromiseAll_inSettlingOrder(values, position, value) ==
    LET free == CHOOSE k \in 1..Len(values) :
                    /\ ~values[k].settled
                    /\ \A m \in 1..(k - 1) : values[m].settled
    IN [values EXCEPT ![free] = Fulfilled(value)]

\* Promise.all: the value of the promise at `position` takes that position
\* in the array of values.
PromiseAll(values, position, value) ==
    [values EXCEPT ![position] = Fulfilled(value)]

\* Mutant of AllSettled: a null linkInfo counts as not there yet.
AllSettled_nonNull(values) ==
    \A k \in 1..Len(values) : values[k].settled /\ values[k].value # <<>>

\* Promise.all has every value: processBatch's await is over.
AllSettled(values) == \A k \in 1..Len(values) : values[k].settled

\* processBatch(links, ...) on its way to the await: the batch with the
\* promises of its links, first being the index of its first link.
processBatch(elts, first, pageType, settings, domainCache) ==
    LET started == GetLinkInfos(elts, 1, first, pageType, settings,
                                [values |-> <<>>,
                                 domainCache |-> domainCache])
    IN [batch |-> [first |-> first, values |-> started.values,
                   pc |-> "awaiting", passes |-> 0, handed |-> <<>>,
                   unsettled |-> 0],
        domainCache |-> started.domainCache]

(***************************************************************************)
(* Perceptual hashes (phash.js).  A Uint8Array is the sequence of its      *)
(* bytes, element k of the array at position k + 1.                        *)
(***************************************************************************)

\* new Uint8Array(n).
Uint8Array(n) == [k \in 1..n |-> 0]

\* arr[index] = value on a Uint8Array: the value is taken modulo 2^8, and a
\* store past the end of the array does nothing.
SetUint8(arr, index, value) ==
    IF index + 1 \in 1..Len(arr)
    THEN [arr EXCEPT ![index + 1] = value % 256]
    ELSE arr

\* bitAppenderGen(arr): the generator object, not yet started.  The
\* locals are set when the body first runs, up to its first yield.
bitAppenderGen ==
    [started |-> FALSE, byteIndex |-> 0, currentByte |-> 0, bitCount |-> 0]

\* generator.next(bit) on gen, which appends to arr.  The first call starts
\* the body and runs it to the first yield: its argument is discarded.
\* currentByte stays below 2^8, where << 1 doubles and | adds the bit.
GeneratorNext(gen, arr, bit) ==
    IF ~gen.started
    THEN [gen |-> [gen EXCEPT !.started = TRUE], arr |-> arr]
    ELSE LET currentByte == 2 * gen.currentByte + (IF bit THEN 1 ELSE 0)
             bitCount == gen.bitCount + 1
         IN IF bitCount = 8
            THEN [gen |-> [gen EXCEPT !.byteIndex = @ + 1,
                                      !.currentByte = 0,
                                      !.bitCount = 0],
                  arr |-> SetUint8(arr, gen.byteIndex, currentByte)]
            ELSE [gen |-> [gen EXCEPT !.currentByte = currentByte,
                                      !.bitCount = bitCount],
                  arr |-> arr]

\* bitAppender without its call of next(): the generator is handed out
\* before its body has started.
bitAppender_notStarted(arr) == bitAppenderGen

\* bitAppender(arr): the generator, started.
bitAppender(arr) == GeneratorNext(bitAppenderGen, arr, FALSE).gen

\* A string, as the sequence of its characters (what yield* hands out).
CharsOfL == <<"L", "F", "L", "+", "F", "+", "L", "F", "L">>
CharsOfLRule == <<"-", "R", "F", "+", "L", "F", "L", "+", "F", "R", "-">>
CharsOfRRule == <<"+", "L", "F", "-", "R", "F", "R", "-", "F", "L", "+">>

\* What mooreCurveL yields for the characters str[lo..hi] of the curve
\* below, in their order (the loop is split in halves).
RECURSIVE RewriteL(_, _, _)
RewriteL(str, lo, hi) ==
    IF lo > hi THEN <<>>
    ELSE IF lo = hi
         THEN CASE str[lo] = "L" -> CharsOfLRule
                [] str[lo] = "R" -> CharsOfRRule
                [] OTHER -> <<str[lo]>>
         ELSE RewriteL(str, lo, (lo + hi) \div 2)
                  \o RewriteL(str, ((lo + hi) \div 2) + 1, hi)

\* mooreCurveL(n): the characters it yields.
RECURSIVE mooreCurveL(_)
mooreCurveL(n) ==
    IF n = 1 THEN CharsOfL
    ELSE LET below == mooreCurveL(n - 1)
         IN RewriteL(below, 1, Len(below))

\* The directions D of mooreCurve.
MooreD == <<<<0, -1>>, <<1, 0>>, <<0, 1>>, <<-1, 0>>>>

\* The vector v after t quarter turns: D[d] becomes D[(d + t) % 4].
Turned(v, t) ==
    CASE t = 0 -> v
      [] t = 1 -> <<-v[2], v[1]>>
      [] t = 2 -> <<-v[1], -v[2]>>
      [] t = 3 -> <<v[2], -v[1]>>

\* Mutant of MooreStep: "-" turns the way "+" does.
MooreStep_sameTurn(c) ==
    CASE c = "F" -> [d |-> 0, at |-> MooreD[1], points |-> <<MooreD[1]>>]
      [] c = "+" -> [d |-> 1, at |-> <<0, 0>>, points |-> <<>>]
      [] c = "-" -> [d |-> 1, at |-> <<0, 0>>, points |-> <<>>]
      [] OTHER -> [d |-> 0, at |-> <<0, 0>>, points |-> <<>>]

\* mooreCurve's switch on the character c, from (0, 0) in direction 0: the
\* quarter turns made, the place reached, and the points yielded.
MooreStep(c) ==
    CASE c = "F" -> [d |-> 0, at |-> MooreD[1], points |-> <<MooreD[1]>>]
      [] c = "+" -> [d |-> 1, at |-> <<0, 0>>, points |-> <<>>]
      [] c = "-" -> [d |-> 3, at |-> <<0, 0>>, points |-> <<>>]
      [] OTHER -> [d |-> 0, at |-> <<0, 0>>, points |-> <<>>]

\* One stretch of mooreCurve's loop followed by another: the second starts
\* where the first ended, in the direction the first ended in.
MooreThen(first, second) ==
    LET moved(v) == <<first.at[1] + Turned(v, first.d)[1],
                      first.at[2] + Turned(v, first.d)[2]>>
    IN [d |-> (first.d + second.d) % 4,
        at |-> moved(second.at),
        points |-> first.points
                       \o [k \in 1..Len(second.points) |->
                               moved(second.points[k])]]

\* mooreCurve's loop over the characters str[lo..hi], in their order, from
\* (0, 0) in direction 0 (the loop is split in halves).
RECURSIVE MooreWalk(_, _, _)
MooreWalk(str, lo, hi) ==
    IF lo = hi THEN MooreStep(str[lo])
    ELSE MooreThen(MooreWalk(str, lo, (lo + hi) \div 2),
                   MooreWalk(str, ((lo + hi) \div 2) + 1, hi))

\* mooreCurve(p): the points it yields.
mooreCurve(p) ==
    LET x == (2 ^ (p - 1)) - 1
        y == (2 ^ p) - 1
        str == mooreCurveL(p)
        walk == MooreWalk(str, 1, Len(str))
    IN <<<<x, y>>>> \o [k \in 1..Len(walk.points) |->
                            <<x + walk.points[k][1], y + walk.points[k][2]>>]

\* Array.from(mooreCurve(3), (p) => p[0] + (8*p[1])).
NewMC3 ==
    LET points == mooreCurve(3)
    IN [k \in 1..Len(points) |-> points[k][1] + 8 * points[k][2]]

\* The value of NewMC3, written out.
MC3Table ==
    <<59, 51, 50, 58, 57, 56, 48, 49, 41, 40, 32, 33, 34, 42, 43, 35,
      27, 19, 18, 26, 25, 24, 16, 17, 9, 8, 0, 1, 2, 10, 11, 3,
      4, 12, 13, 5, 6, 7, 15, 14, 22, 23, 31, 30, 29, 21, 20, 28,
      36, 44, 45, 37, 38, 39, 47, 46, 54, 55, 63, 62, 61, 53, 52, 60>>

\* The HashFunction enum.
HashFunction ==
    [DIFFERENCE_HASH |-> "diffHash", DCT_HASH |-> "dctHash",
     WAVELET_HASH |-> "waveletHash"]

\* The RGBA bytes of a 32x32 canvas the image was drawn to, by the
\* picture the image shows; byte k belongs to row k \div 128, column
\* (k \div 4) % 32, channel k % 4.
CanvasData(picture) ==
    [k \in 0..4095 |->
        IF k % 4 = 3 THEN 255
        ELSE CASE picture = "rows" -> 8 * (k \div 128)
               [] picture = "columns" -> 8 * ((k \div 4) % 32)
               [] OTHER -> 128]

\* getImagePixels(img, 32, 32).
getImagePixels(img) == CanvasData(img.picture)

\* The sum of f[1], ..., f[n].
RECURSIVE SumOf(_, _)
SumOf(f, n) == IF n = 0 THEN 0 ELSE f[n] + SumOf(f, n - 1)

\* getDiffHash's sum for G[8*i + j]: k starts at i4*stride + j4, moves by
\* 4 sixteen times, and by stride - 16 after every fourth.  G holds
\* sum / 48; two sums compare as their quotients do, so the sum stands
\* for it.
DiffHashSum(imgPixels, i, j) ==
    SumOf([n \in 1..16 |->
              LET k == ((4 * i) * 128 + 4 * j) + 128 * ((n - 1) \div 4)
                           + 4 * ((n - 1) % 4)
              IN imgPixels[k] + imgPixels[k + 1] + imgPixels[k + 2]], 16)

\* The bits getDiffHash hands to hashGen.next, in order: prev < curr along
\* the curve MC3, prev being G[MC3[63]] at first.
DiffHashBits(imgPixels, curve) ==
    [n \in 1..64 |->
        LET prev == curve[IF n = 1 THEN 64 ELSE n - 1]
            curr == curve[n]
        IN DiffHashSum(imgPixels, prev \div 8, prev % 8)
               < DiffHashSum(imgPixels, curr \div 8, curr % 8)]

\* getDiffHash._MC3 after the test at the top of getDiffHash, but with a
\* table found there read from its second entry on.
MemoizedMC3_shifted(memo) ==
    IF memo = <<>> THEN MC3Table ELSE [k \in 1..64 |-> memo[(k % 64) + 1]]

\* getDiffHash._MC3 after the test at the top of getDiffHash.
MemoizedMC3(memo) == IF memo = <<>> THEN MC3Table ELSE memo

\* getImageHash with getDiffHash as the default of its switch.
getImageHash_fallback(img, hashFunction) ==
    IF ~img.complete THEN [thrown |-> "Image not complete", callee |-> ""]
    ELSE IF img.naturalWidth = 0
    THEN [thrown |-> "Image broken", callee |-> ""]
    ELSE CASE hashFunction = HashFunction.DCT_HASH ->
                  [thrown |-> "", callee |-> "getDctHash"]
           [] hashFunction = HashFunction.WAVELET_HASH ->
                  [thrown |-> "", callee |-> "getWaveletHash"]
           [] OTHER -> [thrown |-> "", callee |-> "getDiffHash"]

\* getImageHash(img, hashFunction): what it throws, or else the function
\* whose result it returns.
getImageHash(img, hashFunction) ==
    IF ~img.complete THEN [thrown |-> "Image not complete", callee |-> ""]
    ELSE IF img.naturalWidth = 0
    THEN [thrown |-> "Image broken", callee |-> ""]
    ELSE CASE hashFunction = HashFunction.DIFFERENCE_HASH ->
                  [thrown |-> "", callee |-> "getDiffHash"]
           [] hashFunction = HashFunction.DCT_HASH ->
                  [thrown |-> "", callee |-> "getDctHash"]
           [] hashFunction = HashFunction.WAVELET_HASH ->
                  [thrown |-> "", callee |-> "getWaveletHash"]
           [] OTHER -> [thrown |-> "Invalid hash function", callee |-> ""]

(***************************************************************************)
(* The background script and the content script's shim.  A string is the   *)
(* sequence of its characters; a base64 string is the sequence of the      *)
(* positions of its characters in the base64 alphabet, Pad for "=".        *)
(* An absent property of an object is <<>>, a present one <<value>>.       *)
(***************************************************************************)
Pad == 64

\* btoa on the bytes from position k on.
RECURSIVE btoaFrom(_, _)
btoaFrom(bytes, k) ==
    LET left == Len(bytes) - k + 1
        b1 == bytes[k]
        b2 == IF left >= 2 THEN bytes[k + 1] ELSE 0
        b3 == IF left >= 3 THEN bytes[k + 2] ELSE 0
        n == b1 * 65536 + b2 * 256 + b3
    IN IF left <= 0 THEN <<>>
       ELSE <<n \div 262144, (n \div 4096) % 64,
              IF left >= 2 THEN (n \div 64) % 64 ELSE Pad,
              IF left >= 3 THEN n % 64 ELSE Pad>>
            \o btoaFrom(bytes, k + 3)

\* bufToBase64(buffer): btoa(String.fromCharCode(...new Uint8Array(buffer)))
bufToBase64(buffer) == btoaFrom(buffer, 1)

\* atob on the characters from position k on.
RECURSIVE atobFrom(_, _)
atobFrom(b64, k) ==
    IF k > Len(b64) THEN <<>>
    ELSE LET c3 == IF b64[k + 2] = Pad THEN 0 ELSE b64[k + 2]
             c4 == IF b64[k + 3] = Pad THEN 0 ELSE b64[k + 3]
             n == b64[k] * 262144 + b64[k + 1] * 4096 + c3 * 64 + c4
         IN (IF b64[k + 2] = Pad THEN <<n \div 65536>>
             ELSE IF b64[k + 3] = Pad
                  THEN <<n \div 65536, (n \div 256) % 256>>
                  ELSE <<n \div 65536, (n \div 256) % 256, n % 256>>)
            \o atobFrom(b64, k + 4)

\* base64ToBuf(b64): the bytes of atob(b64).
base64ToBuf(b64) == atobFrom(b64, 1)

\* str.endsWith(searchString)
endsWith(str, searchString) ==
    /\ Len(str) >= Len(searchString)
    /\ SubSeq(str, Len(str) - Len(searchString) + 1, Len(str)) = searchString

\* '.thumbs.redditmedia.com'
ThumbsDomain ==
    <<".", "t", "h", "u", "m", "b", "s", ".", "r", "e", "d", "d", "i", "t",
      "m", "e", "d", "i", "a", ".", "c", "o", "m">>

\* new URL(url, base): url is absolute (protocol and hostname), relative to
\* the protocol of base ("//host/path"), relative to its host, or cannot
\* be parsed, and then the constructor throws.
URL(url, base) ==
    CASE url.form = "absolute" ->
             [thrown |-> FALSE, protocol |-> url.protocol,
              hostname |-> url.hostname]
      [] url.form = "protocol-relative" ->
             [thrown |-> FALSE, protocol |-> base.protocol,
              hostname |-> url.hostname]
      [] url.form = "relative" ->
             [thrown |-> FALSE, protocol |-> base.protocol,
              hostname |-> base.hostname]
      [] OTHER -> [thrown |-> TRUE, protocol |-> "", hostname |-> <<>>]

\* What the listener returns from its catch block; no image was fetched.
Failed ==
    [fetched |-> <<>>, settled |-> "fulfilled",
     response |-> [hash |-> <<>>, error |-> <<"Failed to get image hash">>]]

\* Mutant of onMessage: the protocol of the URL is left as it came.
onMessage_sameProtocol(message, sender, outcome) ==
    LET url == URL(message.url, sender.url)
    IN IF url.thrown THEN Failed
       ELSE IF ~endsWith(url.hostname, ThumbsDomain) THEN Failed
       ELSE IF outcome.thrown # "" THEN [Failed EXCEPT !.fetched = <<url>>]
       ELSE [fetched |-> <<url>>, settled |-> "fulfilled",
             response |-> [hash |-> <<bufToBase64(outcome.hash)>>,
                           error |-> <<>>]]

\* The listener the background script adds to browser.runtime.onMessage,
\* with what fetchImageAndGetHash does on the URL it is given: outcome.
\* Yields the URL fetched, how the promise returned settles, and with
\* what.
onMessage(message, sender, outcome) ==
    LET url == URL(message.url, sender.url)
        https == [url EXCEPT !.protocol = "https:"]
    IN IF url.thrown THEN Failed
       ELSE IF ~endsWith(url.hostname, ThumbsDomain) THEN Failed
       ELSE IF outcome.thrown # "" THEN [Failed EXCEPT !.fetched = <<https>>]
       ELSE [fetched |-> <<https>>, settled |-> "fulfilled",
             response |-> [hash |-> <<bufToBase64(outcome.hash)>>,
                           error |-> <<>>]]

\* fetchImageAndGetHash(url, hashFunction) of the content script's shim,
\* from the response browser.runtime.sendMessage resolved to: !response.hash
\* holds for an absent hash and for an empty string.
fetchImageAndGetHash(response) ==
    IF response.hash = <<>> \/ response.hash = <<(<<>>)>>
    THEN [thrown |-> <<"Background script error: ">>
                        \o (IF response.error = <<>>
                               \/ response.error = <<"">>
                            THEN <<"unknown">> ELSE response.error),
          returned |-> <<>>]
    ELSE [thrown |-> <<>>, returned |-> <<base64ToBuf(response.hash[1])>>]

(***************************************************************************)
(* Inputs                                                                  *)
(***************************************************************************)

\* How many links a page gets.
MaxLinks == 4

\* What getLinkInfo can resolve to for a visible link: url, domain and
\* thumbnailHash.  Links that share a URL, a fingerprint, or have
\* fingerprints within 4 bits of each other, and a link with no thumbnail.
LinkKinds ==
    {[url |-> "A", domain |-> "x", thumbnailHash |-> H0],
     [url |-> "", domain |-> "x", thumbnailHash |-> H3],
     [url |-> "B", domain |-> "x", thumbnailHash |-> H6],
     [url |-> "", domain |-> "x", thumbnailHash |-> H1],
     [url |-> "A", domain |-> "", thumbnailHash |-> <<>>]}

MaxChainLinks == 3

\* More fingerprints and domains, for pages of MaxChainLinks links.
ChainLinkKinds ==
    {[url |-> "A", domain |-> "", thumbnailHash |-> <<>>],
     [url |-> "B", domain |-> "x", thumbnailHash |-> H0],
     [url |-> "", domain |-> "x", thumbnailHash |-> H3],
     [url |-> "A", domain |-> "x", thumbnailHash |-> H6],
     [url |-> "", domain |-> "", thumbnailHash |-> H0],
     [url |-> "", domain |-> "x", thumbnailHash |-> HFar],
     [url |-> "", domain |-> "x", thumbnailHash |-> H1]}

\* The LinkInfo of link `thing` of kind k.
LinkInfo(thing, k) ==
    <<[thing |-> thing, url |-> k.url, domain |-> k.domain,
       thumbnailHash |-> k.thumbnailHash]>>

\* Every LinkInfo getLinkInfo can resolve to for link `thing`; <<>> is null
\* (the link is not visible).
LinkInfosOf(kindSet, thing) ==
    {<<>>} \cup {LinkInfo(thing, k) : k \in kindSet}

(***************************************************************************)
(* State                                                                   *)
(***************************************************************************)
VARIABLES
    kinds,      \* the kinds of link the page can hold
    limit,      \* the number of links the page can hold
    version,    \* which version of the content script runs on the page
    df,         \* the DuplicateFinder, its nodes and records, and the page
    nextIndex,  \* index to assign to the next link
    infos,      \* the LinkInfo (or null) of every link found so far
    pending,    \* the linkInfos of the batch not yet clustered
    batchStats, \* what the last processLinks returned
    order,      \* the links processLinks was called on one by one, in order
    hdArgs,     \* the two 64-bit values handed to hdist
    hdResult,   \* the value hdist returned, -1 before the call
    ds,         \* DSNodes on their own: the parent and rank of each
    joined,     \* the sets of DSNodes that union calls have joined
    bk,         \* a BK-tree on its own
    bkKeys,     \* the keys added to bk, in order
    bkQuery,    \* the last findAll on bk: key, maxDist and the values yielded
    userSettings, \* the Settings object getSettings returned
    domainCache, \* userSettings._domainCache
    calls,      \* the shouldProcessThumbnail calls made: domain and result
    pageType,   \* the page type getPageInfo returned
    mainState,  \* main: "start", "observing" or "rejected"; "none" if not run
    errors,     \* what console.error was called with
    things,     \* the links of the page, by index
    batches,    \* the processBatch calls: first index, promises, position
    failed,     \* the links whose fetchImageAndGetHash threw
    clicks,     \* how many times a show/hide toggle was clicked
    stream,     \* the bits a caller supplies to a bitAppender generator
    fed,        \* how many bits of stream were supplied
    hash,       \* the Uint8Array handed to bitAppender
    hashGen,    \* the generator bitAppender returned: its local variables
    MC3,        \* getDiffHash._MC3, <<>> while undefined
    hashCalls,  \* the getImageHash calls made: arguments and outcome
    messages,   \* the messages sent to the background script, and the replies
    merges      \* the calls of merge2 and mergeK made on their own

finderVars ==
    <<kinds, limit, version, df, nextIndex, infos, pending, batchStats,
      order>>
hdVars == <<hdArgs, hdResult>>
dsVars == <<ds, joined>>
bkVars == <<bk, bkKeys, bkQuery>>

settingsVars == <<userSettings, domainCache, calls>>
batchVars ==
    <<pageType, mainState, errors, things, batches, failed, clicks>>
scriptVars == <<settingsVars, batchVars>>
bitVars == <<stream, fed, hash, hashGen>>
phashVars == <<bitVars, MC3, hashCalls>>
bgVars == <<messages>>
mergeVars == <<merges>>

vars ==
    <<finderVars, hdVars, dsVars, bkVars, scriptVars, phashVars, bgVars,
      mergeVars>>

NoStats == [numWithDups |-> 0, totalDups |-> 0]

FinderIdle ==
    /\ kinds = {}
    /\ limit = 0
    /\ version = "none"
    /\ df = <<>>
    /\ nextIndex = 0
    /\ infos = <<>>
    /\ pending = <<>>
    /\ batchStats = NoStats
    /\ order = <<>>

HdIdle ==
    /\ hdArgs = <<>>
    /\ hdResult = -1

DsIdle ==
    /\ ds = <<>>
    /\ joined = {}

BkIdle ==
    /\ bk = <<>>
    /\ bkKeys = <<>>
    /\ bkQuery = <<>>

SettingsIdle ==
    /\ userSettings = <<>>
    /\ domainCache = <<>>
    /\ calls = <<>>

BatchIdle ==
    /\ pageType = ""
    /\ mainState = "none"
    /\ errors = <<>>
    /\ things = <<>>
    /\ batches = <<>>
    /\ failed = {}
    /\ clicks = 0

BitsIdle ==
    /\ stream = <<>>
    /\ fed = 0
    /\ hash = <<>>
    /\ hashGen = <<>>

PhashIdle ==
    /\ BitsIdle
    /\ MC3 = <<>>
    /\ hashCalls = <<>>

BgIdle == messages = <<>>
MergeIdle == merges = <<>>

ScriptIdle == SettingsIdle /\ BatchIdle /\ PhashIdle /\ BgIdle /\ MergeIdle

\* Nothing but the content script runs.
OnlySettings ==
    /\ FinderIdle /\ HdIdle /\ DsIdle /\ BkIdle /\ BatchIdle /\ PhashIdle
    /\ BgIdle /\ MergeIdle

OnlyFinder == HdIdle /\ DsIdle /\ BkIdle /\ ScriptIdle

(***************************************************************************)
(* The content script on a page: links are found and resolved in index     *)
(* order, and each batch is clustered before the next one is found.        *)
(***************************************************************************)

\* main, on a listing page: the finder is constructed from the settings.
FinderInit(settingsChoices, kindSet, maxLinks) ==
    /\ kinds = kindSet
    /\ limit = maxLinks
    /\ version \in {"current", "earlier"}
    /\ \E settings \in settingsChoices :
          df = IF version = "current" THEN DuplicateFinder(settings)
               ELSE DuplicateFinderEarlier(settings)
    /\ nextIndex = 0
    /\ infos = <<>>
    /\ pending = <<>>
    /\ batchStats = NoStats
    /\ order = <<>>

\* getLinks gives the next link of a batch its index, and getLinkInfo
\* resolves it to li.
GetLinkInfo(li) ==
    /\ version = "current"
    /\ nextIndex < limit
    /\ ~df.thrown
    /\ nextIndex' = nextIndex + 1
    /\ infos' = Append(infos, li)
    /\ pending' = Append(pending, li)
    /\ df' = [df EXCEPT !.page = Append(@, nextIndex),
                        !.display = @ @@ (nextIndex :> "")]
    /\ UNCHANGED <<kinds, limit, version, batchStats, order,
                 hdVars, dsVars, bkVars, scriptVars, phashVars, bgVars, mergeVars>>

\* processBatch, once every getLinkInfo of the batch has resolved:
\* dupFinder.processLinks(linkInfos).
ProcessLinks ==
    /\ version = "current"
    /\ pending # <<>>
    /\ LET done == processLinks(df, pending)
       IN /\ df' = done.df
          /\ batchStats' = done.batchStats
    /\ pending' = <<>>
    /\ UNCHANGED <<kinds, limit, version, nextIndex, infos, order,
                 hdVars, dsVars, bkVars, scriptVars, phashVars, bgVars, mergeVars>>

\* Earlier version, main: the next link of the page gets its index and
\* getLinkInfo resolves it to li.
GetLinkInfoEarlier(li) ==
    /\ version = "earlier"
    /\ nextIndex < limit
    /\ ~df.done
    /\ nextIndex' = nextIndex + 1
    /\ infos' = Append(infos, li)
    /\ pending' = Append(pending, li)
    /\ df' = [df EXCEPT !.page = Append(@, nextIndex),
                        !.display = @ @@ (nextIndex :> "")]
    /\ UNCHANGED <<kinds, limit, version, batchStats, order,
                 hdVars, dsVars, bkVars, scriptVars, phashVars, bgVars, mergeVars>>

\* Earlier version, main: once every link of the page is resolved,
\* processLink on each of them.
MainEarlier ==
    /\ version = "earlier"
    /\ pending # <<>>
    /\ ~df.done
    /\ df' = [mainLoopEarlier(df, pending) EXCEPT !.done = TRUE]
    /\ pending' = <<>>
    /\ UNCHANGED <<kinds, limit, version, nextIndex, infos, batchStats, order,
                 hdVars, dsVars, bkVars, scriptVars, phashVars, bgVars, mergeVars>>

Next ==
    \/ \E li \in LinkInfosOf(kinds, nextIndex) : GetLinkInfo(li)
    \/ ProcessLinks
    \/ \E li \in LinkInfosOf(kinds, nextIndex) : GetLinkInfoEarlier(li)
    \/ MainEarlier

DefaultSettings ==
    [deduplicateThumbs |-> TRUE, maxHammingDistance |-> 4,
     partitionByDomain |-> TRUE]

Init ==
    /\ FinderInit({DefaultSettings}, LinkKinds, MaxLinks)
    /\ OnlyFinder

Spec == Init /\ [][Next]_vars

\* Pages of fewer links of more kinds.
ChainInit ==
    /\ FinderInit({DefaultSettings}, ChainLinkKinds, MaxChainLinks)
    /\ OnlyFinder

SpecChains == ChainInit /\ [][Next]_vars

\* The same pages with maxHammingDistance set to 0.
ExactSettings ==
    [deduplicateThumbs |-> TRUE, maxHammingDistance |-> 0,
     partitionByDomain |-> TRUE]

ExactInit ==
    /\ FinderInit({ExactSettings}, ChainLinkKinds, MaxChainLinks)
    /\ OnlyFinder

SpecExact == ExactInit /\ [][Next]_vars

\* The same pages with deduplicateThumbs switched off.
UrlOnlySettings ==
    [deduplicateThumbs |-> FALSE, maxHammingDistance |-> 4,
     partitionByDomain |-> TRUE]

UrlOnlyInit ==
    /\ FinderInit({UrlOnlySettings}, ChainLinkKinds, MaxChainLinks)
    /\ OnlyFinder

SpecUrlOnly == UrlOnlyInit /\ [][Next]_vars

MaxPartitionLinks == 3

\* Links with the same or close fingerprints in several domains, one of
\* them with no domain and one with an empty domain.
PartitionLinkKinds ==
    {[url |-> "", domain |-> "x", thumbnailHash |-> H0],
     [url |-> "", domain |-> "y", thumbnailHash |-> H0],
     [url |-> "", domain |-> NoDomain, thumbnailHash |-> H3],
     [url |-> "", domain |-> "", thumbnailHash |-> H0],
     [url |-> "A", domain |-> "y", thumbnailHash |-> HFar],
     [url |-> "A", domain |-> "x", thumbnailHash |-> <<>>]}

\* The default settings with partitionByDomain switched off.
OneTableSettings ==
    [deduplicateThumbs |-> TRUE, maxHammingDistance |-> 4,
     partitionByDomain |-> FALSE]

\* Pages seen with partitionByDomain on and with it off.
PartitionInit ==
    /\ FinderInit({DefaultSettings, OneTableSettings}, PartitionLinkKinds,
                  MaxPartitionLinks)
    /\ OnlyFinder

SpecPartition == PartitionInit /\ [][Next]_vars

(***************************************************************************)
(* Settings.shouldProcessThumbnail on its own                              *)
(***************************************************************************)

\* How many shouldProcessThumbnail calls are made.
MaxCalls == 2

\* The domains the options page has a row for, in the order of the rows:
\* normalized names, each at most once.
OverrideDomains == {<<"a.x", "x", "y">>, <<"x", "a.x", "y">>}

\* A row's deduplicateThumbs: the row is absent, or holds null, true or
\* false.
RowChoices == {"absent", "null", "true", "false"}

\* The domains of the links of a page.
QueryDomains == {NoDomain, "", "x", "y", "ax", "a.x", "b.a.x"}

\* settings.domainSettings for the rows and what each of them holds.
DomainSettingsOf(rows, choice) ==
    LET pairs == [k \in 1..Len(rows) |->
                     <<rows[k],
                       CASE choice[rows[k]] = "true" -> <<TRUE>>
                         [] choice[rows[k]] = "false" -> <<FALSE>>
                         [] OTHER -> <<>>,
                       choice[rows[k]] # "absent">>]
        present(p) == p[3]
    IN [k \in 1..Len(SelectSeq(pairs, present)) |->
           <<SelectSeq(pairs, present)[k][1],
             SelectSeq(pairs, present)[k][2]>>]

\* getSettings: new Settings(settings), with what storage holds.
SettingsInit ==
    /\ \E deduplicateThumbs \in BOOLEAN, rows \in OverrideDomains :
          \E choice \in [{rows[k] : k \in 1..Len(rows)} -> RowChoices] :
              userSettings =
                  [deduplicateThumbs |-> deduplicateThumbs,
                   domainSettings |-> DomainSettingsOf(rows, choice),
                   maxHammingDistance |-> 4,
                   partitionByDomain |-> TRUE]
    /\ domainCache = <<>>
    /\ calls = <<>>
    /\ OnlySettings

\* settings.shouldProcessThumbnail(domain)
ShouldProcessThumbnail(domain) ==
    /\ Len(calls) < MaxCalls
    /\ LET r == shouldProcessThumbnail(userSettings, domainCache, domain)
       IN /\ domainCache' = r.domainCache
          /\ calls' = Append(calls, [domain |-> domain, result |-> r.result,
                                     thrown |-> r.thrown])
    /\ UNCHANGED <<userSettings, finderVars, hdVars, dsVars, bkVars,
                 batchVars, phashVars, bgVars, mergeVars>>

SettingsNext == \E domain \in QueryDomains : ShouldProcessThumbnail(domain)

SpecSettings == SettingsInit /\ [][SettingsNext]_vars

(***************************************************************************)
(* The content script with its promises: main finds the first batch of     *)
(* links, the MutationObserver finds later ones, each thumbnail hash       *)
(* arrives or fails at some time of its own, and a batch is clustered once *)
(* Promise.all has the linkInfo of each of its links.                      *)
(***************************************************************************)

\* How many links a page with promises gets.
MaxBatchLinks == 3

\* How many clicks on show/hide toggles are made.
MaxClicks == 2

\* The links such a page can hold.
ThingKinds ==
    {[visible |-> TRUE, url |-> "A", domain |-> "x", thumbnail |-> H0],
     [visible |-> TRUE, url |-> "", domain |-> "x", thumbnail |-> H0],
     [visible |-> TRUE, url |-> "A", domain |-> "y", thumbnail |-> <<>>],
     [visible |-> FALSE, url |-> "", domain |-> "", thumbnail |-> <<>>]}

\* The default settings, with no domain settings.
ThumbsOnSettings ==
    [deduplicateThumbs |-> TRUE, domainSettings |-> <<>>,
     maxHammingDistance |-> 4, partitionByDomain |-> TRUE]

\* Thumbnails switched off, with no domain settings.
ThumbsOffSettings ==
    [deduplicateThumbs |-> FALSE, domainSettings |-> <<>>,
     maxHammingDistance |-> 4, partitionByDomain |-> TRUE]

\* Thumbnails switched off but for domain x and what is below it.
ThumbsOnForXSettings ==
    [deduplicateThumbs |-> FALSE, domainSettings |-> <<<<"x", <<TRUE>>>>>>,
     maxHammingDistance |-> 4, partitionByDomain |-> TRUE]

\* The sequences of at most n links.
LinksUpTo(n) == UNION {[1..m -> kinds] : m \in 0..n}

\* main, after getPageInfo, getSettings and new DuplicateFinder.
BatchesInit(settingsChoices, pageTypes, kindSet, maxLinks) ==
    /\ kinds = kindSet
    /\ limit = maxLinks
    /\ version = "current"
    /\ userSettings \in settingsChoices
    /\ df = DuplicateFinder(userSettings)
    /\ nextIndex = 0
    /\ infos = <<>>
    /\ pending = <<>>
    /\ batchStats = NoStats
    /\ order = <<>>
    /\ domainCache = <<>>
    /\ calls = <<>>
    /\ pageType \in pageTypes
    /\ mainState = "start"
    /\ errors = <<>>
    /\ things = <<>>
    /\ batches = <<>>
    /\ failed = {}
    /\ clicks = 0
    /\ HdIdle /\ DsIdle /\ BkIdle /\ PhashIdle /\ BgIdle /\ MergeIdle

\* getLinks gives the links elts their indices, and processBatch is
\* called on them: every getLinkInfo runs up to its await.
FoundLinks(elts) ==
    LET started == processBatch(elts, nextIndex, pageType, userSettings,
                                domainCache)
    IN /\ nextIndex' = nextIndex + Len(elts)
       /\ things' = things \o elts
       /\ batches' = Append(batches, started.batch)
       /\ domainCache' = started.domainCache
       /\ infos' = infos \o [k \in 1..Len(elts) |->
                                 started.batch.values[k].value]
       /\ df' = [df EXCEPT
                    !.page = @ \o [k \in 1..Len(elts) |-> nextIndex + k - 1],
                    !.display = @ @@ [t \in nextIndex..(nextIndex + Len(elts)
                                                         - 1) |-> ""]]

\* main from getLinks on: it throws, or the links of the page are handed
\* to processBatch (when there are any) and the observer is installed.
Main(elts) ==
    /\ mainState = "start"
    /\ IF getLinks(pageType) # ""
       THEN /\ elts = <<>>
            /\ mainState' = "rejected"
            /\ errors' = Append(errors, getLinks(pageType))
            /\ UNCHANGED <<nextIndex, things, batches, domainCache, infos, df>>
       ELSE /\ mainState' = "observing"
            /\ IF elts = <<>>
               THEN UNCHANGED <<nextIndex, things, batches, domainCache, infos,
                                df>>
               ELSE FoundLinks(elts)
            /\ UNCHANGED errors
    /\ UNCHANGED <<kinds, limit, version, pending, batchStats, order,
                   userSettings, calls, pageType, failed, clicks,
                   hdVars, dsVars, bkVars, phashVars, bgVars, mergeVars>>

\* The MutationObserver's callback, for an added node that holds links.
Observe(elts) ==
    /\ mainState = "observing"
    /\ elts # <<>>
    /\ FoundLinks(elts)
    /\ UNCHANGED <<kinds, limit, version, pending, batchStats, order,
                   userSettings, calls, pageType, mainState, errors, failed,
                   clicks, hdVars, dsVars, bkVars, phashVars, bgVars, mergeVars>>

\* fetchImageAndGetHash returns the hash of link i's thumbnail (ok), or
\* throws; getLinkInfo resolves, within batch b.
HashSettles(b, i, ok) ==
    /\ b \in 1..Len(batches)
    /\ batches[b].pc = "awaiting"
    /\ i - batches[b].first + 1 \in 1..Len(batches[b].values)
    /\ infos[i + 1] = <<>>
    /\ things[i + 1].visible
    /\ i \notin failed
    /\ \E k \in 1..Len(batches[b].values) : ~batches[b].values[k].settled
    /\ LET value == getLinkInfoAfterFetch(
                        i, things[i + 1],
                        IF ok THEN <<things[i + 1].thumbnail>> ELSE <<>>)
       IN /\ batches' = [batches EXCEPT ![b].values =
                             PromiseAll(@, i - batches[b].first + 1, value)]
          /\ infos' = [infos EXCEPT ![i + 1] = value]
    /\ failed' = IF ok THEN failed ELSE failed \cup {i}
    /\ UNCHANGED <<kinds, limit, version, df, nextIndex, pending, batchStats,
                   order, settingsVars, pageType, mainState, errors, things,
                   clicks, hdVars, dsVars, bkVars, phashVars, bgVars, mergeVars>>

\* The linkInfos the await of batch b's processBatch evaluates to.
Awaited(b) ==
    [k \in 1..Len(batches[b].values) |-> batches[b].values[k].value]

\* processBatch of batch b goes on after its await, Promise.all having
\* every linkInfo.
ResumeBatch(b) ==
    /\ b \in 1..Len(batches)
    /\ batches[b].pc = "awaiting"
    /\ AllSettled(batches[b].values)
    /\ batches' = [batches EXCEPT
                      ![b].pc = "done",
                      ![b].passes = @ + 1,
                      ![b].handed = Awaited(b),
                      ![b].unsettled =
                          Cardinality({k \in 1..Len(batches[b].values) :
                                       ~batches[b].values[k].settled})]

\* processBatch after its await: dupFinder.processLinks(linkInfos).
ProcessBatch(b) ==
    /\ ResumeBatch(b)
    /\ LET done == processLinks(df, Awaited(b))
       IN /\ df' = done.df
          /\ batchStats' = done.batchStats
    /\ UNCHANGED <<kinds, limit, version, nextIndex, infos, pending, order,
                   settingsVars, pageType, mainState, errors, things, failed,
                   clicks, hdVars, dsVars, bkVars, phashVars, bgVars, mergeVars>>

\* A click on the show/hide toggle in the tagline of record r.
Click(r) ==
    /\ r \in DOMAIN df.records
    /\ df.records[r].taglineElt = "attached"
    /\ clicks < MaxClicks
    /\ df' = onclick(df, r)
    /\ clicks' = clicks + 1
    /\ UNCHANGED <<kinds, limit, version, nextIndex, infos, pending,
                   batchStats, order, settingsVars, pageType, mainState,
                   errors, things, batches, failed, hdVars, dsVars, bkVars,
                   phashVars, bgVars, mergeVars>>

BatchesNext ==
    \/ \E elts \in LinksUpTo(limit - nextIndex) : Main(elts)
    \/ \E elts \in LinksUpTo(limit - nextIndex) : Observe(elts)
    \/ \E b \in 1..limit, i \in 0..(limit - 1), ok \in BOOLEAN :
           HashSettles(b, i, ok)
    \/ \E b \in 1..limit : ProcessBatch(b)

\* Listing pages and legacy search pages, with thumbnails on, off, or on
\* for one domain only.
BatchesStart ==
    BatchesInit({ThumbsOnSettings, ThumbsOffSettings, ThumbsOnForXSettings},
                {getPageInfo(classList).pageType :
                     classList \in {{"listing-page"}, {"search-page"}}},
                ThingKinds, MaxBatchLinks)

SpecBatches == BatchesStart /\ [][BatchesNext]_vars

\* Things whose thumbnails differ: H3 is within the default distance of H0
\* and of H6, which are not within it of each other.
OrderThingKinds ==
    {[visible |-> TRUE, url |-> "A", domain |-> "x", thumbnail |-> H0],
     [visible |-> TRUE, url |-> "", domain |-> "x", thumbnail |-> H3],
     [visible |-> TRUE, url |-> "", domain |-> "x", thumbnail |-> H6]}

\* A listing page of such things, with the default settings.
BatchOrderStart ==
    BatchesInit({ThumbsOnSettings},
                {getPageInfo({"listing-page"}).pageType},
                OrderThingKinds, MaxBatchLinks)

SpecBatchOrder == BatchOrderStart /\ [][BatchesNext]_vars

\* The microtask queue runs the rest of processBatch once Promise.all has
\* resolved.
\* The links by what their getLinkInfo does: a hash is awaited, linkInfo is
\* there at once, or there is no linkInfo.
FairThingKinds == {k \in ThingKinds : k.url # "" \/ ~k.visible}

\* Pages of such links, with thumbnails on or off.
BatchesFairStart ==
    BatchesInit({ThumbsOnSettings, ThumbsOffSettings},
                {getPageInfo(classList).pageType :
                     classList \in {{"listing-page"}, {"search-page"}}},
                FairThingKinds, MaxBatchLinks)

SpecBatchesFair ==
    /\ BatchesFairStart
    /\ [][BatchesNext]_vars
    /\ \A b \in 1..MaxBatchLinks : WF_batches(ResumeBatch(b))

(***************************************************************************)
(* Pages of more links, all without thumbnail hashing, so that several     *)
(* groups with duplicates stand side by side, with clicks on their         *)
(* show/hide toggles in between the clustering passes.                     *)
(***************************************************************************)

MaxClickLinks == 4

\* Links with one of two URLs.
ClickThingKinds ==
    {[visible |-> TRUE, url |-> "A", domain |-> "x", thumbnail |-> H0],
     [visible |-> TRUE, url |-> "B", domain |-> "x", thumbnail |-> H0]}

ClicksInit ==
    BatchesInit({ThumbsOffSettings},
                {getPageInfo({"listing-page"}).pageType}, ClickThingKinds,
                MaxClickLinks)

ClicksNext ==
    \/ \E elts \in LinksUpTo(limit - nextIndex) : Main(elts)
    \/ \E elts \in LinksUpTo(limit - nextIndex) : Observe(elts)
    \/ \E b \in 1..limit : ProcessBatch(b)
    \/ \E r \in 0..(limit - 1) : Click(r)

SpecClicks == ClicksInit /\ [][ClicksNext]_vars

(***************************************************************************)
(* processLinks called on the links of a page one by one, in any order     *)
(***************************************************************************)
MaxAnyOrderLinks == 3

\* The finder on a page of the n links of linkInfos, none processed.
FinderOnPage(settings, n) ==
    [DuplicateFinder(settings) EXCEPT
        !.page = [k \in 1..n |-> k - 1],
        !.display = [k \in 0..(n - 1) |-> ""]]

AnyOrderInit ==
    /\ kinds = LinkKinds
    /\ limit = MaxAnyOrderLinks
    /\ version = "current"
    /\ \E choice \in [1..MaxAnyOrderLinks ->
                         {<<>>} \cup {<<k>> : k \in LinkKinds}] :
          infos = [k \in 1..MaxAnyOrderLinks |->
                      IF choice[k] = <<>> THEN <<>>
                      ELSE LinkInfo(k - 1, choice[k][1])]
    /\ df = FinderOnPage(DefaultSettings, MaxAnyOrderLinks)
    /\ nextIndex = MaxAnyOrderLinks
    /\ pending = <<>>
    /\ batchStats = NoStats
    /\ order = <<>>
    /\ OnlyFinder

\* dupFinder.processLinks([linkInfo]) for link i, any link not yet processed.
ProcessLinksOf(i) ==
    /\ i \in 0..(Len(infos) - 1)
    /\ \A k \in 1..Len(order) : order[k] # i
    /\ ~df.thrown
    /\ LET done == processLinks(df, <<infos[i + 1]>>)
       IN /\ df' = done.df
          /\ batchStats' = done.batchStats
    /\ order' = Append(order, i)
    /\ UNCHANGED <<kinds, limit, version, nextIndex, infos, pending,
                   hdVars, dsVars, bkVars, scriptVars, phashVars, bgVars, mergeVars>>

AnyOrderNext == \E i \in 0..(MaxAnyOrderLinks - 1) : ProcessLinksOf(i)

SpecAnyOrder == AnyOrderInit /\ [][AnyOrderNext]_vars

(***************************************************************************)
(* processLinks on one link at a time, the loop over bkMap.findAll of      *)
(* updateThumbMap taken one next() at a time.  bkQuery is the call in      *)
(* progress: the linkInfo, the merged set, the frames of the generator,    *)
(* the values it has yielded, and, for the properties, the finder before   *)
(* the call and the tree findAll was called on.                            *)
(***************************************************************************)
MaxLoopLinks == 4

LoopInit ==
    /\ FinderInit({DefaultSettings}, LinkKinds, MaxLoopLinks)
    /\ version = "current"
    /\ OnlyFinder

\* The BK-tree of the table the linkInfo of the call in progress is for.
LoopTree == df.thumbMaps[ThumbMapKey(df, bkQuery[1].li[1].domain)].bkMap

\* processLinks([li]) on the next link of the page, to its end, or to the
\* call of bkMap.findAll when updateThumbMap gets to its loop.
BeginProcessLinks(li) ==
    /\ nextIndex < limit
    /\ ~df.thrown
    /\ bkQuery = <<>>
    /\ nextIndex' = nextIndex + 1
    /\ infos' = Append(infos, li)
    /\ LET onPage == [df EXCEPT !.page = Append(@, nextIndex),
                                !.display = @ @@ (nextIndex :> "")]
           atLoop == processLinkToLoop([df |-> onPage, merged |-> <<>>], li)
           done == processLinks(onPage, <<li>>)
       IN IF ReachesLoop(df, li)
          THEN /\ df' = atLoop.df
               /\ pending' = <<li>>
               /\ bkQuery' =
                      <<[li |-> li, merged |-> atLoop.merged,
                         frames |-> <<[n |-> 1, i |-> Unset]>>,
                         values |-> <<>>, done |-> FALSE,
                         before |-> onPage,
                         tree |-> atLoop.df.thumbMaps[
                                      ThumbMapKey(df, li[1].domain)].bkMap]>>
               /\ UNCHANGED batchStats
          ELSE /\ df' = done.df
               /\ batchStats' = done.batchStats
               /\ UNCHANGED <<pending, bkQuery>>
    /\ UNCHANGED <<kinds, limit, version, order, bk, bkKeys,
                   hdVars, dsVars, scriptVars, phashVars, bgVars, mergeVars>>

\* One turn of the loop: next() on the generator and, when it yields
\* otherNode, this.mergeDsNodes(node, otherNode, merged).
LoopTurn ==
    /\ bkQuery # <<>>
    /\ ~bkQuery[1].done
    /\ LET q == bkQuery[1]
           linkInfo == q.li[1]
           next == findAllNext(LoopTree, q.frames,
                               Int32Array(linkInfo.thumbnailHash),
                               df.maxHammingDistance)
           st == mergeDsNodes([df |-> df, merged |-> q.merged],
                              linkInfo.thing, next.value[1])
       IN IF next.value = <<>>
          THEN /\ bkQuery' = <<[q EXCEPT !.frames = next.frames,
                                         !.done = TRUE]>>
               /\ UNCHANGED df
          ELSE /\ bkQuery' = <<[q EXCEPT !.frames = next.frames,
                                         !.values = Append(@, next.value[1]),
                                         !.merged = st.merged]>>
               /\ df' = st.df
    /\ UNCHANGED <<kinds, limit, version, nextIndex, infos, pending,
                   batchStats, order, bk, bkKeys,
                   hdVars, dsVars, scriptVars, phashVars, bgVars, mergeVars>>

\* After the loop: thumbMap.bkMap.add(bkMapKey, node), and the second loop
\* of processLinks.
EndProcessLinks ==
    /\ bkQuery # <<>>
    /\ bkQuery[1].done
    /\ LET q == bkQuery[1]
           linkInfo == q.li[1]
           tk == ThumbMapKey(df, linkInfo.domain)
           added == [df EXCEPT !.thumbMaps[tk].bkMap =
                        add(@, Int32Array(linkInfo.thumbnailHash),
                            linkInfo.thing)]
           done == MergeRecords(
                       [df |-> added,
                        batchStats |-> [numWithDups |-> 0, totalDups |-> 0]],
                       q.merged, BatchRange(pending, 1))
       IN /\ df' = done.df
          /\ batchStats' = done.batchStats
    /\ pending' = <<>>
    /\ bkQuery' = <<>>
    /\ UNCHANGED <<kinds, limit, version, nextIndex, infos, order, bk, bkKeys,
                   hdVars, dsVars, scriptVars, phashVars, bgVars, mergeVars>>

LoopNext ==
    \/ \E li \in LinkInfosOf(kinds, nextIndex) : BeginProcessLinks(li)
    \/ LoopTurn
    \/ EndProcessLinks

SpecLoop == LoopInit /\ [][LoopNext]_vars

(***************************************************************************)
(* bitAppender on its own: a caller supplies the 64 bits of a hash, one    *)
(* next() call per bit.                                                    *)
(***************************************************************************)

\* The bits of a hash, and its bytes.
HashBytes == 8
HashBits == 8 * HashBytes

\* The bit sequences supplied: one bit set, one bit clear, none, all.
BitStreams ==
    {[i \in 1..HashBits |-> i = b] : b \in 0..HashBits}
        \cup {[i \in 1..HashBits |-> i # b] : b \in 0..HashBits}

\* The arrays handed to bitAppender: new Uint8Array(8), or one in use.
ByteArrays == {Uint8Array(HashBytes), [k \in 1..HashBytes |-> 255]}

BitsInit ==
    /\ stream \in BitStreams
    /\ fed = 0
    /\ hash \in ByteArrays
    /\ hashGen = bitAppender(hash)
    /\ MC3 = <<>>
    /\ hashCalls = <<>>
    /\ FinderIdle /\ HdIdle /\ DsIdle /\ BkIdle /\ SettingsIdle /\ BatchIdle
    /\ BgIdle /\ MergeIdle

\* hashGen.next(bit), for the next bit of the stream.
SupplyBit ==
    /\ fed < Len(stream)
    /\ LET after == GeneratorNext(hashGen, hash, stream[fed + 1])
       IN /\ hashGen' = after.gen
          /\ hash' = after.arr
    /\ fed' = fed + 1
    /\ UNCHANGED <<stream, MC3, hashCalls, finderVars, hdVars, dsVars, bkVars,
                   scriptVars, bgVars, mergeVars>>

BitsNext == SupplyBit

SpecBits == BitsInit /\ [][BitsNext]_vars

(***************************************************************************)
(* getImageHash called on one image after another.  getDiffHash is        *)
(* followed bit by bit.  getDctHash and getWaveletHash compute in         *)
(* floating point, which is not followed: of them a call records only     *)
(* that the function was called on the image.                             *)
(***************************************************************************)

\* How many getImageHash calls are made.
MaxHashCalls == 2

\* The images: loaded or not, broken or not, showing one of two pictures.
Images ==
    [complete : BOOLEAN, naturalWidth : {0, 32}, picture : {"rows", "columns"}]
        \ {img \in [complete : BOOLEAN, naturalWidth : {0, 32},
                     picture : {"rows", "columns"}] :
               ~img.complete /\ img.naturalWidth # 0}

\* The hash-function names of the enum, the name of one of its keys, and a
\* name that was never in it.
HashFunctionNames ==
    {HashFunction.DIFFERENCE_HASH, HashFunction.DCT_HASH,
     HashFunction.WAVELET_HASH, "DCT_HASH", "averageHash"}

HashInit ==
    /\ BitsIdle
    /\ MC3 = <<>>
    /\ hashCalls = <<>>
    /\ FinderIdle /\ HdIdle /\ DsIdle /\ BkIdle /\ SettingsIdle /\ BatchIdle
    /\ BgIdle /\ MergeIdle

\* getImageHash(img, hashFunction) is called: it throws, or returns what
\* getDctHash or getWaveletHash returns, or getDiffHash runs up to its
\* loop over MC3.
GetImageHash(img, hashFunction) ==
    /\ hashGen = <<>>
    /\ Len(hashCalls) < MaxHashCalls
    /\ LET outcome == getImageHash(img, hashFunction)
           call == [img |-> img, hashFunction |-> hashFunction,
                    thrown |-> outcome.thrown, callee |-> outcome.callee,
                    returned |-> outcome.callee
                                     \in {"getDctHash", "getWaveletHash"},
                    value |-> <<>>]
       IN /\ hashCalls' = Append(hashCalls, call)
          /\ IF outcome.callee = "getDiffHash"
             THEN /\ MC3' = MemoizedMC3(MC3)
                  /\ stream' = DiffHashBits(getImagePixels(img),
                                            MemoizedMC3(MC3))
                  /\ fed' = 0
                  /\ hash' = Uint8Array(HashBytes)
                  /\ hashGen' = bitAppender(Uint8Array(HashBytes))
             ELSE UNCHANGED <<MC3, bitVars>>
    /\ UNCHANGED <<finderVars, hdVars, dsVars, bkVars, scriptVars, bgVars, mergeVars>>

\* getDiffHash returns hash.buffer, and getImageHash returns it.
ReturnDiffHash ==
    /\ hashGen # <<>>
    /\ hashCalls # <<>>
    /\ fed = Len(stream)
    /\ hashCalls' = [hashCalls EXCEPT ![Len(hashCalls)].returned = TRUE,
                                       ![Len(hashCalls)].value = hash]
    /\ stream' = <<>>
    /\ fed' = 0
    /\ hash' = <<>>
    /\ hashGen' = <<>>
    /\ UNCHANGED <<MC3, finderVars, hdVars, dsVars, bkVars, scriptVars, bgVars, mergeVars>>

HashNext ==
    \/ \E img \in Images, hashFunction \in HashFunctionNames :
           GetImageHash(img, hashFunction)
    \/ SupplyBit
    \/ ReturnDiffHash

SpecHash == HashInit /\ [][HashNext]_vars

(***************************************************************************)
(* Messages from the shim to the background script                         *)
(***************************************************************************)
MaxMessages == 1

\* Host names: a thumbnail host, the domain without a label before it, a
\* host that ends in other letters before "thumbs", one that goes on after
\* the domain, and the page's host.
Hostnames ==
    {<<"a">> \o ThumbsDomain,
     Tail(ThumbsDomain),
     <<"x">> \o Tail(ThumbsDomain),
     <<"a">> \o ThumbsDomain \o <<".", "e", ".", "c", "o">>,
     <<"r", "e", "d", "d", "i", "t", ".", "c", "o", "m">>}

\* The url of a message.
MessageUrls ==
    {[form |-> "absolute", protocol |-> p, hostname |-> h] :
         p \in {"http:", "https:", "ftp:"}, h \in Hostnames}
    \cup {[form |-> "protocol-relative", protocol |-> "", hostname |-> h] :
              h \in Hostnames}
    \cup {[form |-> f, protocol |-> "", hostname |-> <<>>] :
              f \in {"relative", "invalid"}}

\* sender.url: the page the content script runs on.
SenderUrls ==
    {[protocol |-> p,
      hostname |-> <<"r", "e", "d", "d", "i", "t", ".", "c", "o", "m">>] :
         p \in {"http:", "https:"}}

\* Hashes as getImageHash returns them: buffers of eight bytes.
BgHashes ==
    {<<0, 0, 0, 0, 0, 0, 0, 0>>, <<255, 255, 255, 255, 255, 255, 255, 255>>,
     <<1, 35, 69, 103, 137, 171, 205, 239>>}

\* What fetchImageAndGetHash of the background script (fetchImage, then
\* getImageHash) comes to: a hash, or one of them throws.
FetchOutcomes ==
    {[thrown |-> "", hash |-> h] : h \in BgHashes}
    \cup {[thrown |-> t, hash |-> <<>>] :
              t \in {"Image failed to load", "Invalid hash function"}}

BgInit ==
    /\ messages = <<>>
    /\ FinderIdle /\ HdIdle /\ DsIdle /\ BkIdle /\ SettingsIdle /\ BatchIdle
    /\ PhashIdle /\ MergeIdle

\* The shim calls browser.runtime.sendMessage and the listener runs.
SendMessage(url, sender, outcome) ==
    /\ Len(messages) < MaxMessages
    /\ LET message == [url |-> url, hashFunction |-> "dctHash"]
           done == onMessage(message, [url |-> sender], outcome)
       IN messages' = Append(messages,
                             [message |-> message, sender |-> sender,
                              outcome |-> outcome, fetched |-> done.fetched,
                              settled |-> done.settled,
                              response |-> done.response,
                              shim |-> <<>>])
    /\ UNCHANGED <<finderVars, hdVars, dsVars, bkVars, scriptVars, phashVars,
                   mergeVars>>

\* The shim goes on after its await, with the response of message k.
ShimResumes(k) ==
    /\ k \in 1..Len(messages)
    /\ messages[k].shim = <<>>
    /\ messages[k].settled = "fulfilled"
    /\ messages' = [messages EXCEPT
                       ![k].shim =
                           <<fetchImageAndGetHash(messages[k].response)>>]
    /\ UNCHANGED <<finderVars, hdVars, dsVars, bkVars, scriptVars, phashVars,
                   mergeVars>>

BgNext ==
    \/ \E url \in MessageUrls, sender \in SenderUrls,
          outcome \in FetchOutcomes : SendMessage(url, sender, outcome)
    \/ \E k \in 1..MaxMessages : ShimResumes(k)

SpecBg == BgInit /\ [][BgNext]_vars

(***************************************************************************)
(* merge2 and mergeK on their own                                          *)
(***************************************************************************)
\* How many arrays a list handed to mergeK holds at most.
MaxArrays == 4

\* The elements of the arrays.
MergeValues == 1..3

\* The comparators by name: linkIndexComparator, and one under which two
\* different elements (2 and 3) compare equal.
CompareFunctions == {"linkIndexComparator", "byHalves"}
CompareFunction(name) ==
    IF name = "linkIndexComparator" THEN linkIndexComparator
    ELSE [a \in Int, b \in Int |-> (a \div 2) - (b \div 2)]

\* l is sorted by the comparator.
SortedBy(l, compareFunction) ==
    \A m, n \in 1..Len(l) : m < n => compareFunction[l[m], l[n]] <= 0

\* The arrays of up to two elements sorted by the comparator of that name.
SortedArrays(name) ==
    {l \in UNION {[1..n -> MergeValues] : n \in 0..2} :
        SortedBy(l, CompareFunction(name))}

\* The lists of n sorted arrays.
RECURSIVE ListsOfArrays(_, _)
ListsOfArrays(name, n) ==
    IF n = 0 THEN {<<>>}
    ELSE {Append(A, l) : A \in ListsOfArrays(name, n - 1),
                         l \in SortedArrays(name)}

\* The list of arrays and the comparator of the call to come.
MergeInit ==
    /\ \E name \in CompareFunctions, n \in 0..MaxArrays :
           \E A \in ListsOfArrays(name, n) :
               merges = <<[callee |-> "", A |-> A, compareFunction |-> name,
                           returned |-> <<>>]>>
    /\ FinderIdle /\ HdIdle /\ DsIdle /\ BkIdle /\ SettingsIdle /\ BatchIdle
    /\ PhashIdle /\ BgIdle

\* merge2(A[0], A[1], compareFunction) is called.
CallMerge2 ==
    /\ merges # <<>>
    /\ merges[1].callee = ""
    /\ Len(merges[1].A) = 2
    /\ merges' = <<[merges[1] EXCEPT
                       !.callee = "merge2",
                       !.returned =
                           merge2(merges[1].A[1], merges[1].A[2],
                                  CompareFunction(merges[1].compareFunction))]>>
    /\ UNCHANGED <<finderVars, hdVars, dsVars, bkVars, scriptVars, phashVars,
                   bgVars>>

\* mergeK(A, compareFunction) is called.
CallMergeK ==
    /\ merges # <<>>
    /\ merges[1].callee = ""
    /\ merges' = <<[merges[1] EXCEPT
                       !.callee = "mergeK",
                       !.returned =
                           mergeK(merges[1].A,
                                  CompareFunction(merges[1].compareFunction))]>>
    /\ UNCHANGED <<finderVars, hdVars, dsVars, bkVars, scriptVars, phashVars,
                   bgVars>>

MergeNext == CallMerge2 \/ CallMergeK

SpecMerge == MergeInit /\ [][MergeNext]_vars

(***************************************************************************)
(* DSNode on its own                                                       *)
(***************************************************************************)
MaxNodes == 5

DSNodes == 0..(MaxNodes - 1)

\* new DSNode(), MaxNodes times.
DsInit ==
    /\ ds = [parent |-> [n \in DSNodes |-> Null],
             rank |-> [n \in DSNodes |-> 0]]
    /\ joined = {{n} : n \in DSNodes}
    /\ FinderIdle /\ HdIdle /\ BkIdle /\ ScriptIdle

\* The nodes joined with n by the union calls so far.
JoinedWith(n) == CHOOSE A \in joined : n \in A

\* a.union(b)
Union(a, b) ==
    /\ LET u == union(ds, a, b)
       IN ds' = [parent |-> u.parent, rank |-> u.rank]
    /\ joined' = (joined \ {JoinedWith(a), JoinedWith(b)})
                      \cup {JoinedWith(a) \cup JoinedWith(b)}
    /\ UNCHANGED <<finderVars, hdVars, bkVars, scriptVars, phashVars, bgVars, mergeVars>>

\* a.find()
Find(a) ==
    /\ ds' = [ds EXCEPT !.parent = find(ds.parent, a).parent]
    /\ UNCHANGED <<joined, finderVars, hdVars, bkVars, scriptVars,
                   phashVars, bgVars, mergeVars>>

DsNext ==
    \/ \E a, b \in DSNodes : Union(a, b)
    \/ \E a \in DSNodes : Find(a)

SpecDS == DsInit /\ [][DsNext]_vars

(***************************************************************************)
(* DSNode.find() one turn of its loop at a time.  ds.finding is the call   *)
(* in progress, <<>> when there is none: the node find was called on and   *)
(* the local variable node.                                                *)
(***************************************************************************)
FindInit ==
    /\ ds = [parent |-> [n \in DSNodes |-> Null],
             rank |-> [n \in DSNodes |-> 0],
             finding |-> <<>>]
    /\ joined = {{n} : n \in DSNodes}
    /\ FinderIdle /\ HdIdle /\ BkIdle /\ ScriptIdle

\* a.union(b), between two find calls.
UnionBetweenFinds(a, b) ==
    /\ ds.finding = <<>>
    /\ LET u == union(ds, a, b)
       IN ds' = [ds EXCEPT !.parent = u.parent, !.rank = u.rank]
    /\ joined' = (joined \ {JoinedWith(a), JoinedWith(b)})
                      \cup {JoinedWith(a) \cup JoinedWith(b)}
    /\ UNCHANGED <<finderVars, hdVars, bkVars, scriptVars, phashVars, bgVars, mergeVars>>

\* a.find() is called: let node = this.
FindCall(a) ==
    /\ ds.finding = <<>>
    /\ ds' = [ds EXCEPT !.finding = <<[this |-> a, node |-> a]>>]
    /\ UNCHANGED <<joined, finderVars, hdVars, bkVars, scriptVars,
                   phashVars, bgVars, mergeVars>>

\* The loop of find(): one turn while node.parent is set.
FindTurn ==
    /\ ds.finding # <<>>
    /\ ds.parent[ds.finding[1].node] # Null
    /\ LET step == findStep(ds.parent, ds.finding[1].node)
       IN ds' = [ds EXCEPT !.parent = step.parent,
                           !.finding[1].node = step.node]
    /\ UNCHANGED <<joined, finderVars, hdVars, bkVars, scriptVars,
                   phashVars, bgVars, mergeVars>>

\* The loop of find() ends: return node.
FindReturn ==
    /\ ds.finding # <<>>
    /\ ds.parent[ds.finding[1].node] = Null
    /\ ds' = [ds EXCEPT !.finding = <<>>]
    /\ UNCHANGED <<joined, finderVars, hdVars, bkVars, scriptVars,
                   phashVars, bgVars, mergeVars>>

FindNext ==
    \/ \E a, b \in DSNodes : UnionBetweenFinds(a, b)
    \/ \E a \in DSNodes : FindCall(a)
    \/ FindTurn
    \/ FindReturn

\* A find() that was called goes on running.
SpecFind ==
    /\ FindInit
    /\ [][FindNext]_vars
    /\ WF_vars(FindTurn)
    /\ WF_vars(FindReturn)

(***************************************************************************)
(* BKNode on its own                                                       *)
(***************************************************************************)
MaxRadius == 4

BkKeySet == {Int32Array(h) : h \in HashBuffers}

BkInit ==
    /\ bk = <<>>
    /\ bkKeys = <<>>
    /\ bkQuery = <<>>
    /\ FinderIdle /\ HdIdle /\ DsIdle /\ ScriptIdle

\* new BKNode(key, value) for the first key and root.add(key, value) after
\* that, with a new key or with one added before; the value of a key is its
\* place in the order of insertion, and bkKeys keeps each key once.
BkAdd(key) ==
    /\ bk' = IF bk = <<>> THEN <<BKNode(key, 1)>>
             ELSE add(bk, key, Len(bkKeys) + 1)
    /\ bkKeys' = IF \E k \in 1..Len(bkKeys) : bkKeys[k] = key THEN bkKeys
                 ELSE Append(bkKeys, key)
    /\ UNCHANGED <<bkQuery, finderVars, hdVars, dsVars, scriptVars,
                   phashVars, bgVars, mergeVars>>

\* root.findAll(key, maxDist)
BkFindAll(key, maxDist) ==
    /\ bk # <<>>
    /\ bkQuery' = <<[key |-> key, maxDist |-> maxDist,
                     values |-> findAll(bk, 1, key, maxDist)]>>
    /\ UNCHANGED <<bk, bkKeys, finderVars, hdVars, dsVars,
                 scriptVars, phashVars, bgVars, mergeVars>>

BkNext ==
    \/ \E key \in BkKeySet : BkAdd(key)
    \/ \E key \in BkKeySet, maxDist \in 0..MaxRadius : BkFindAll(key, maxDist)

SpecBK == BkInit /\ [][BkNext]_vars

(***************************************************************************)
(* The Hamming metric on its own                                           *)
(***************************************************************************)

\* 32-bit words with the sign bit clear and set, sparse and dense.
TestWords == {0, 1, -1, 2147483647, (-2147483647) - 1, 1431655765, -65536}

HdInit ==
    /\ hdArgs \in (TestWords \X TestWords) \X (TestWords \X TestWords)
    /\ hdResult = -1
    /\ FinderIdle /\ DsIdle /\ BkIdle /\ ScriptIdle

HdistCall ==
    /\ hdResult = -1
    /\ hdResult' = hdist(hdArgs[1], hdArgs[2])
    /\ UNCHANGED <<hdArgs, finderVars, dsVars, bkVars, scriptVars,
                   phashVars, bgVars, mergeVars>>

HdNext == HdistCall

SpecHdist == HdInit /\ [][HdNext]_vars

\* The number of bit positions in which two 64-bit values differ.
DifferingBits(a, b) ==
    Cardinality({<<w, i>> \in (1..2) \X (0..31) : Bit(a[w], i) # Bit(b[w], i)})

\* C8: hdist(a, b) is the number of differing bit positions of a and b, so it
\* lies in 0..64 and is 0 for a = b.
C8_HdistIsBitDifference ==
    hdResult # -1 =>
        /\ hdResult = DifferingBits(hdArgs[1], hdArgs[2])
        /\ hdResult \in 0..64
        /\ (hdArgs[1] = hdArgs[2] => hdResult = 0)
        /\ hdResult = hdist(hdArgs[2], hdArgs[1])

\* A call on words with the sign bit set whose distance is neither 0 nor 64.
C8_Witness ==
    /\ hdResult \in 1..63
    /\ hdArgs[1][1] < 0
    /\ hdArgs[2][2] < 0
    /\ hdArgs[1] # hdArgs[2]

(***************************************************************************)
(* Groups, as the records show them and as the items define them           *)
(***************************************************************************)

\* The items processed so far: the non-null linkInfos, by index.
Items == {i \in 0..(Len(infos) - 1) : infos[i + 1] # <<>>}

ItemOf(i) == infos[i + 1][1]

\* The thumbnail partition an item's fingerprint is kept in.
PartitionOf(d, i) ==
    IF d.partitionByDomain /\ ItemOf(i).domain # NoDomain
    THEN ItemOf(i).domain ELSE ""

\* The number of differing bits of each two hashes of the model.
DifferingBitsOnHashes ==
    [p \in HashBuffers \X HashBuffers |->
        DifferingBits(Int32Array(p[1]), Int32Array(p[2]))] @@ <<>>

\* Two items that the finder d is meant to put together directly.
Linked(d, i, j) ==
    \/ ItemOf(i).url # "" /\ ItemOf(i).url = ItemOf(j).url
    \/ /\ ItemOf(i).thumbnailHash # <<>>
       /\ ItemOf(j).thumbnailHash # <<>>
       /\ PartitionOf(d, i) = PartitionOf(d, j)
       /\ DifferingBitsOnHashes[<<ItemOf(i).thumbnailHash,
                                   ItemOf(j).thumbnailHash>>]
              <= d.maxHammingDistance

\* The items connected to those of S by a chain of linked items of `among`.
RECURSIVE ChainFrom(_, _, _)
ChainFrom(d, among, S) ==
    LET T == S \cup {j \in among : \E i \in S : Linked(d, i, j)}
    IN IF T = S THEN S ELSE ChainFrom(d, among, T)

\* The records still attached to a node: the surviving groups.
Surviving(dupRecord) ==
    {dupRecord[n][1] : n \in {m \in DOMAIN dupRecord : dupRecord[m] # <<>>}}

\* The root of n's tree, without compressing the path.
RECURSIVE RootOf(_, _)
RootOf(parent, n) == IF parent[n] = Null THEN n ELSE RootOf(parent, parent[n])

\* The members of record r, primary first.
MembersOf(ver, rec) ==
    IF ver = "current" THEN rec.links ELSE <<rec.thing>> \o rec.duplicates

Range(s) == {s[k] : k \in 1..Len(s)}

RECURSIVE SumOfLengths(_, _, _)
SumOfLengths(ver, records, rs) ==
    IF rs = {} THEN 0
    ELSE LET r == CHOOSE x \in rs : TRUE
         IN (Len(MembersOf(ver, records[r])) - 1)
                + SumOfLengths(ver, records, rs \ {r})

\* The stats are the counts over the surviving records.
StatsAreCounts(ver, stats, records, dupRecord) ==
    /\ stats.numWithDups =
           Cardinality({r \in Surviving(dupRecord) :
                            Len(MembersOf(ver, records[r])) > 1})
    /\ stats.totalDups = SumOfLengths(ver, records, Surviving(dupRecord))

\* The states in which the script has no clustering pass left half done.
Settled == version \in {"current", "earlier"} /\ ~df.thrown

\* C1: after every completed clustering pass (processLinks in the current
\* version, every mergeDuplicates call that merged in the earlier one),
\* numWithDups is the number of surviving groups with at least one
\* duplicate and totalDups the sum of their numbers of duplicates.
C1_StatsMatchGroups ==
    Settled =>
        /\ StatsAreCounts(version, df.stats, df.records, df.dupRecord)
        /\ version = "earlier" =>
               \A k \in 1..Len(df.afterMerge) :
                   StatsAreCounts(version, df.afterMerge[k].stats,
                                  df.afterMerge[k].records,
                                  df.afterMerge[k].dupRecord)

\* A later pass has absorbed a group that already had duplicates.
C1_Witness ==
    /\ version = "current"
    /\ pending = <<>>
    /\ df.stats.numWithDups >= 1
    /\ \E r \in DOMAIN df.records :
           r \notin Surviving(df.dupRecord) /\ Len(df.records[r].links) > 1

\* The items have all been clustered.
Clustered ==
    /\ Settled
    /\ pending = <<>>
    /\ version = "earlier" => (df.done \/ infos = <<>>)

\* C2: once the items are processed, two of them are in the same group
\* exactly when a chain of processed items connects them, each step of
\* which is an equal non-empty URL or two fingerprints of one partition
\* within maxHammingDistance of each other.
C2_GroupsAreChains ==
    Clustered =>
        \A i, j \in Items :
            (\E r \in Surviving(df.dupRecord) :
                 {i, j} \subseteq Range(MembersOf(version, df.records[r])))
            <=> j \in ChainFrom(df, Items, {i})

\* Items 0 and 1 at distance 3 are grouped, item 2 at distances 10 and 9
\* is on its own; no URL links them.
C2_Witness ==
    /\ Clustered
    /\ version = "current"
    /\ Len(infos) = 3
    /\ Items = {0, 1, 2}
    /\ \A i, j \in Items :
           i # j => (ItemOf(i).url = "" \/ ItemOf(i).url # ItemOf(j).url)
    /\ \A i \in Items : ItemOf(i).domain = "x"
    /\ ItemOf(0).thumbnailHash = H0
    /\ ItemOf(1).thumbnailHash = H3
    /\ ItemOf(2).thumbnailHash = HFar
    /\ df.stats = [numWithDups |-> 1, totalDups |-> 1]

\* The nodes of the set whose root is n.
SetOf(parent, n) ==
    {m \in DOMAIN parent : RootOf(parent, m) = RootOf(parent, n)}

\* Record r's primary comes before every other member of r and of the set
\* of nodes r is attached to.
PrimaryIsFirst(ver, records, parent, r) ==
    LET members == MembersOf(ver, records[r])
    IN /\ records[r].index = members[1]
       /\ \A m \in Range(members) \cup SetOf(parent, members[1]) :
              members[1] <= m

\* C3: in every surviving group the primary is the member of smallest
\* original index.
C3_PrimaryIsSmallestIndex ==
    Settled =>
        \A r \in Surviving(df.dupRecord) :
            PrimaryIsFirst(version, df.records, df.parent, r)

\* Links with URLs A, B, A: one group of item 0 with duplicate item 2, and
\* item 1 on its own.
C3_Witness ==
    /\ Clustered
    /\ Len(infos) = 3
    /\ Items = {0, 1, 2}
    /\ ItemOf(0).url = "A" /\ ItemOf(1).url = "B" /\ ItemOf(2).url = "A"
    /\ Surviving(df.dupRecord) = {0, 1}
    /\ MembersOf(version, df.records[0]) = <<0, 2>>
    /\ MembersOf(version, df.records[1]) = <<1>>
    /\ df.stats = [numWithDups |-> 1, totalDups |-> 1]

StrictlyIncreasing(s) == \A k \in 1..(Len(s) - 1) : s[k] < s[k + 1]

\* C4: every surviving record's member list, primary first, is strictly
\* increasing by original index (after processLinks, and after every
\* mergeDuplicates call of the earlier version).
C4_MembersStrictlyIncreasing ==
    Settled =>
        /\ \A r \in Surviving(df.dupRecord) :
               StrictlyIncreasing(MembersOf(version, df.records[r]))
        /\ version = "earlier" =>
               \A k \in 1..Len(df.afterMerge) :
                   \A r \in Surviving(df.afterMerge[k].dupRecord) :
                       StrictlyIncreasing(
                           MembersOf(version, df.afterMerge[k].records[r]))

\* A record of the earlier version has taken in a link that goes before
\* one of the duplicates it had.
C4_Witness ==
    /\ version = "earlier"
    /\ df.done
    /\ \E k \in 2..Len(df.afterMerge) :
         \E r \in DOMAIN df.afterMerge[k - 1].records :
           LET now == df.afterMerge[k].records[r].duplicates
               before == df.afterMerge[k - 1].records[r].duplicates
           IN \E a \in 2..Len(now) :
                  now[a] \in Range(before) /\ now[a - 1] \notin Range(before)

\* The finder after one processLinks call on all the linkInfos of the page.
InOneBatch ==
    processLinks(FinderOnPage([maxHammingDistance |-> df.maxHammingDistance,
                               partitionByDomain |-> df.partitionByDomain],
                              Len(infos)),
                 infos).df

\* The surviving groups: their member lists.
Groups(d) == {d.records[r].links : r \in Surviving(d.dupRecord)}

\* C9: processLinks on successive batches leaves the same groups, with the
\* same primaries and member orders, and the same cumulative stats as one
\* processLinks call on the whole sequence.
C9_BatchesAsOneBatch ==
    (Clustered /\ version = "current") =>
        /\ Groups(df) = Groups(InOneBatch)
        /\ df.stats = InOneBatch.stats

\* Two passes at least, the last of which added to a group of an earlier
\* one.
C9_Witness ==
    /\ Clustered
    /\ version = "current"
    /\ logStats(df.stats, batchStats) = "Found, total"
    /\ \E r \in Surviving(df.dupRecord) : Len(df.records[r].links) >= 3

\* The groups as sets of links.
Memberships(d) == {Range(l) : l \in Groups(d)}

\* The sets of the disjoint-set forest.
SetsOf(parent) == {SetOf(parent, n) : n \in DOMAIN parent}

\* The sequence s in the order p of its positions.
InOrder(s, p) == [k \in 1..Len(s) |-> s[p[k]]]

\* node.union(other) for each of others in turn.
RECURSIVE UnionWithEach(_, _, _)
UnionWithEach(forest, node, others) ==
    IF others = <<>> THEN forest
    ELSE LET u == union(forest, node, others[1])
         IN UnionWithEach([parent |-> u.parent, rank |-> u.rank], node,
                          Tail(others))

\* What one BK-tree query of updateThumbMap can meet in finder d: a new
\* node, on its own or already united with a node by its URL, and the
\* values findAll yields for a fingerprint new to a thumbnail partition.
QueriesOn(d) ==
    LET new == Len(infos)
        grown == [parent |-> d.parent @@ (new :> Null),
                  rank |-> d.rank @@ (new :> 0)]
        byUrl(u) == LET f == union(grown, u, new)
                    IN [parent |-> f.parent, rank |-> f.rank]
        queried ==
            {x \in (DOMAIN d.thumbMaps) \X HashBuffers :
                 /\ d.thumbMaps[x[1]].bkMap # <<>>
                 /\ bufToString(x[2]) \notin DOMAIN d.thumbMaps[x[1]].map}
    IN {[forest |-> forest, node |-> new,
         others |-> findAll(d.thumbMaps[x[1]].bkMap, 1, Int32Array(x[2]),
                            d.maxHammingDistance)] :
            forest \in {grown} \cup {byUrl(u) : u \in DOMAIN d.parent},
            x \in queried}

\* C5: the final group membership is that of processing the items in
\* index order, whatever the order they are processed in; and uniting a
\* node with the neighbours of one BK-tree query gives the same sets
\* whatever the order of the neighbours.
C5_OrderIndependent ==
    df # <<>> /\ version = "current" =>
        /\ Len(order) = Len(infos) =>
               Memberships(df) = Memberships(InOneBatch)
        /\ \A q \in QueriesOn(df) :
               \A p \in Permutations(1..Len(q.others)) :
                   SetsOf(UnionWithEach(q.forest, q.node,
                                        InOrder(q.others, p)).parent)
                       = SetsOf(UnionWithEach(q.forest, q.node,
                                              q.others).parent)

\* The last link came first, two links are grouped, and a query of the
\* BK-tree yields two neighbours in sets of their own.
C5_Witness ==
    /\ version = "current"
    /\ Len(order) = Len(infos)
    /\ order[1] = Len(infos) - 1
    /\ \E g \in Memberships(df) : Cardinality(g) >= 2
    /\ \E q \in QueriesOn(df) :
           /\ Len(q.others) >= 2
           /\ RootOf(q.forest.parent, q.others[1])
                  # RootOf(q.forest.parent, q.others[2])

\* The keys of bk within maxDist bits of key, by their values.
WithinRadius(key, maxDist) ==
    {k \in 1..Len(bkKeys) : DifferingBits(bkKeys[k], key) <= maxDist}

\* C6: findAll(q, r) on a tree built with add yields the values of exactly
\* the keys within r bits of q.
C6_FindAllIsExact ==
    \A q \in Range(bkQuery) :
        Range(q.values) = WithinRadius(q.key, q.maxDist)

\* findAll yields no value of a key outside the radius, and no value twice.
C6_FindAllIsSound ==
    \A q \in Range(bkQuery) :
        /\ Range(q.values) \subseteq WithinRadius(q.key, q.maxDist)
        /\ Cardinality(Range(q.values)) = Len(q.values)

\* C7: a.find() === b.find() exactly when union calls have joined a and b,
\* and x.find().find() === x.find().
C7_FindTellsJoined ==
    ds # <<>> =>
        /\ \A a, b \in DSNodes :
               LET fa == find(ds.parent, a)
                   fb == find(fa.parent, b)
               IN (fa.root = fb.root) <=> (b \in JoinedWith(a))
        /\ \A x \in DSNodes :
               LET fx == find(ds.parent, x)
               IN find(fx.parent, fx.root).root = fx.root

\* Four nodes are joined, by unions of sets of two, and a find has
\* shortened a path.
C7_Witness ==
    /\ ds # <<>>
    /\ \E A \in joined : Cardinality(A) = 4
    /\ \E n \in DSNodes : ds.rank[n] = 2
    /\ \E n \in DSNodes : ds.parent[n] # Null /\ ds.rank[n] = 1
                          /\ \A m \in DSNodes : ds.parent[m] # n

\* Two items whose URLs are equal, or whose fingerprints are the same bits
\* in one partition.
LinkedExactly(d, i, j) ==
    \/ ItemOf(i).url # "" /\ ItemOf(i).url = ItemOf(j).url
    \/ /\ ItemOf(i).thumbnailHash # <<>>
       /\ ItemOf(i).thumbnailHash = ItemOf(j).thumbnailHash
       /\ PartitionOf(d, i) = PartitionOf(d, j)

RECURSIVE ExactChainFrom(_, _)
ExactChainFrom(d, S) ==
    LET T == S \cup {j \in Items : \E i \in S : LinkedExactly(d, i, j)}
    IN IF T = S THEN S ELSE ExactChainFrom(d, T)

\* C10: with maxHammingDistance 0 no thumbnail partition gets a BK-tree,
\* and two items are grouped only if a chain of equal URLs and bit-identical
\* fingerprints of one partition connects them.
C10_ExactMatchesOnly ==
    df # <<>> /\ df.maxHammingDistance = 0 =>
        /\ ~df.useBk
        /\ \A t \in DOMAIN df.thumbMaps : df.thumbMaps[t].bkMap = <<>>
        /\ Clustered =>
               \A r \in Surviving(df.dupRecord) :
                   \A i, j \in Range(MembersOf(version, df.records[r])) :
                       j \in ExactChainFrom(df, {i})

\* Two links of one partition whose fingerprints differ in one bit stay
\* apart, and two with the same fingerprint and no URL are grouped.
C10_Witness ==
    /\ Clustered
    /\ version = "current"
    /\ df.maxHammingDistance = 0
    /\ Len(infos) = 3
    /\ Items = {0, 1, 2}
    /\ ItemOf(0).thumbnailHash = H1 /\ ItemOf(0).domain = "x"
    /\ ItemOf(1).thumbnailHash = H3 /\ ItemOf(1).url = ""
    /\ ItemOf(2).thumbnailHash = H3 /\ ItemOf(2).url = ""
    /\ Memberships(df) = {{0}, {1, 2}}

\* Two items that are in one surviving group.
SameGroup(i, j) ==
    \E r \in Surviving(df.dupRecord) :
        {i, j} \subseteq Range(MembersOf(version, df.records[r]))

\* Two items with fingerprints within maxHammingDistance of each other.
CloseFingerprints(d, i, j) ==
    /\ ItemOf(i).thumbnailHash # <<>>
    /\ ItemOf(j).thumbnailHash # <<>>
    /\ DifferingBitsOnHashes[<<ItemOf(i).thumbnailHash,
                                ItemOf(j).thumbnailHash>>]
           <= d.maxHammingDistance

\* The nodes a thumbnail table holds, in its map and in its BK-tree.
NodesOfTable(t) ==
    {t.map[h] : h \in DOMAIN t.map}
        \cup {t.bkMap[n].value : n \in DOMAIN t.bkMap}

\* C11: with partitionByDomain on, each thumbnail table holds only items
\* of its domain key, items with no domain or an empty one share the ''
\* table, and items are grouped only along chains of equal URLs and close
\* fingerprints of one domain key (so equal fingerprints in different
\* domains do not merge); with partitionByDomain off there is one table
\* and any two items with close fingerprints are grouped.
C11_PartitionByDomain ==
    Clustered =>
        /\ df.partitionByDomain =>
               /\ \A k \in DOMAIN df.thumbMaps :
                      \A n \in NodesOfTable(df.thumbMaps[k]) :
                          n \in Items /\ PartitionOf(df, n) = k
               /\ \A i, j \in Items :
                      /\ SameGroup(i, j) => j \in ChainFrom(df, Items, {i})
                      /\ ItemOf(i).domain \in {NoDomain, ""}
                            /\ ItemOf(j).domain \in {NoDomain, ""}
                            /\ CloseFingerprints(df, i, j)
                         => SameGroup(i, j)
        /\ ~df.partitionByDomain =>
               /\ DOMAIN df.thumbMaps \subseteq {SingleThumbMap}
               /\ \A i, j \in Items :
                      CloseFingerprints(df, i, j) => SameGroup(i, j)

\* With partitionByDomain on, the same fingerprint in domain x and in the
\* empty domain stays apart, while the link with no domain joins the one
\* with the empty domain.
C11_Witness ==
    /\ Clustered
    /\ version = "current"
    /\ df.partitionByDomain
    /\ Len(infos) = 3
    /\ Items = {0, 1, 2}
    /\ ItemOf(0).domain = "x" /\ ItemOf(0).thumbnailHash = H0
    /\ ItemOf(1).domain = NoDomain /\ ItemOf(1).thumbnailHash = H3
    /\ ItemOf(2).domain = "" /\ ItemOf(2).thumbnailHash = H0
    /\ Memberships(df) = {{0}, {1, 2}}

\* With partitionByDomain off, the same fingerprint in domains x and y is
\* one group.
C11_WitnessOneTable ==
    /\ Clustered
    /\ ~df.partitionByDomain
    /\ Len(infos) = 2
    /\ Items = {0, 1}
    /\ ItemOf(0).domain = "x" /\ ItemOf(0).thumbnailHash = H0
    /\ ItemOf(1).domain = "y" /\ ItemOf(1).thumbnailHash = H0
    /\ ItemOf(0).url = "" /\ ItemOf(1).url = ""
    /\ Memberships(df) = {{0, 1}}

\* Override `name` is for the domain d itself or for a parent of it: d is
\* name, or ends with a dot followed by name.
AppliesTo(name, d) ==
    \/ Chars[d] = Chars[name]
    \/ /\ Len(Chars[d]) > Len(Chars[name])
       /\ Chars[d][Len(Chars[d]) - Len(Chars[name])] = "."
       /\ SubSeq(Chars[d], Len(Chars[d]) - Len(Chars[name]) + 1,
                 Len(Chars[d])) = Chars[name]

\* What the settings s say for a domain: the longest override that applies
\* and holds a value, the global deduplicateThumbs when there is none.
ThumbnailSetting(s, domain) ==
    LET d == IF domain = NoDomain THEN "" ELSE domain
        applying == {k \in 1..Len(s.domainSettings) :
                        /\ s.domainSettings[k][2] # <<>>
                        /\ AppliesTo(s.domainSettings[k][1], d)}
    IN IF applying = {} THEN s.deduplicateThumbs
       ELSE LET best == CHOOSE k \in applying : \A m \in applying :
                           Len(Chars[s.domainSettings[k][1]])
                               >= Len(Chars[s.domainSettings[m][1]])
            IN s.domainSettings[best][2][1]

\* C13: shouldProcessThumbnail(domain) returns the deduplicateThumbs of the
\* most specific override that is for the domain or a parent of it by whole
\* labels, the global deduplicateThumbs when no override applies, and
\* later calls for the same domain return what the first one did.
C13_MostSpecificOverride ==
    \A k \in 1..Len(calls) :
        /\ ~calls[k].thrown
        /\ calls[k].result = ThumbnailSetting(userSettings, calls[k].domain)
        /\ \A m \in 1..(k - 1) :
               calls[m].domain = calls[k].domain
                   => calls[m].result = calls[k].result

\* Thumbnails are on globally and for x, off for a.x: b.a.x is asked about
\* twice, the second time from the cache, and gets false both times.
C13_Witness ==
    /\ Len(calls) = 2
    /\ userSettings.deduplicateThumbs
    /\ userSettings.domainSettings = <<<<"x", <<TRUE>>>>, <<"a.x", <<FALSE>>>>>>
    /\ calls[1].domain = "b.a.x" /\ calls[2].domain = "b.a.x"
    /\ "b.a.x" \in DOMAIN domainCache
    /\ ~calls[1].result /\ ~calls[2].result

\* The links whose batch has been clustered.
Processed ==
    {i \in 0..(nextIndex - 1) :
        \E b \in 1..Len(batches) :
            /\ batches[b].pc = "done"
            /\ i - batches[b].first + 1 \in 1..Len(batches[b].values)}

\* No processLinks call has thrown.
NoThrow == df # <<>> => ~df.thrown

\* The settings switch thumbnails off and no domain setting switches them
\* on again.
UrlOnly ==
    /\ userSettings # <<>>
    /\ ~userSettings.deduplicateThumbs
    /\ \A k \in 1..Len(userSettings.domainSettings) :
           userSettings.domainSettings[k][2] # <<TRUE>>

\* The links connected to those of S by a chain of equal, non-empty URLs
\* of clustered links.
RECURSIVE UrlChainFrom(_)
UrlChainFrom(S) ==
    LET T == S \cup {j \in Processed :
                        /\ things[j + 1].visible
                        /\ things[j + 1].url # ""
                        /\ \E i \in S : things[i + 1].url = things[j + 1].url}
    IN IF T = S THEN S ELSE UrlChainFrom(T)

\* C12: with deduplicateThumbs false and no domain setting turning
\* thumbnails on, no thumbnail is hashed, the finder never gets a thumbnail
\* table or BK-tree, and two links are in one group only if a chain of
\* equal URLs connects them.
C12_UrlOnly ==
    UrlOnly =>
        /\ failed = {}
        /\ \A i \in Items : ItemOf(i).thumbnailHash = <<>>
        /\ DOMAIN df.thumbMaps = {}
        /\ \A i, j \in Processed \cap Items :
               SameGroup(i, j) => j \in UrlChainFrom({i})

\* Thumbnails are off; two links with the same thumbnail and different
\* URLs stay apart, and the one with URL A joins the other link with
\* URL A.
C12_Witness ==
    /\ UrlOnly
    /\ Len(things) = 3
    /\ Processed = {0, 1, 2}
    /\ things[1].thumbnail = H0 /\ things[1].url = "A"
    /\ things[2].thumbnail = H0 /\ things[2].url = ""
    /\ things[3].thumbnail = <<>> /\ things[3].url = "A"
    /\ Memberships(df) = {{0, 2}, {1}}

\* The items connected to those of S by a chain of equal, non-empty URLs.
RECURSIVE UrlChainOfItems(_)
UrlChainOfItems(S) ==
    LET T == S \cup {j \in Items : ItemOf(j).url # "" /\
                        \E i \in S : ItemOf(i).url = ItemOf(j).url}
    IN IF T = S THEN S ELSE UrlChainOfItems(T)

\* The earlier version, whose finder holds deduplicateThumbs itself: with
\* it false, processLink leaves the thumbnail tables alone even for a
\* linkInfo that has a hash, and groups follow URLs only.
UrlOnlyEarlier ==
    version = "earlier" /\ ~df.deduplicateThumbs =>
        /\ DOMAIN df.thumbMaps = {}
        /\ Clustered =>
               \A i, j \in Items :
                   SameGroup(i, j) => j \in UrlChainOfItems({i})

\* The batch link i was found in.
BatchOf(i) ==
    CHOOSE b \in 1..Len(batches) :
        i - batches[b].first + 1 \in 1..Len(batches[b].values)

\* The links of batch b.
LinksOf(b) ==
    {batches[b].first + k - 1 : k \in 1..Len(batches[b].values)}

\* C14: a link whose thumbnail hash could not be computed resolves to a
\* linkInfo with its URL and domain and no thumbnailHash; its batch is not
\* aborted (its promise is fulfilled, nothing is thrown or logged as an
\* error), the other links of the batch keep their fingerprints, and once
\* clustered the link is grouped with every clustered link of the same URL.
C14_FailedHashKeepsItem ==
    \A i \in failed :
        /\ infos[i + 1] = <<[thing |-> i, url |-> things[i + 1].url,
                             domain |-> things[i + 1].domain,
                             thumbnailHash |-> <<>>]>>
        /\ batches[BatchOf(i)].values[i - batches[BatchOf(i)].first + 1]
               = [settled |-> TRUE, value |-> infos[i + 1]]
        /\ errors = <<>>
        /\ ~df.thrown
        /\ \A j \in LinksOf(BatchOf(i)) \ failed :
               /\ j \in Items => ItemOf(j).thumbnailHash \in
                                     {<<>>, things[j + 1].thumbnail}
               /\ j \in Processed /\ things[j + 1].visible
                      /\ things[j + 1].thumbnail # <<>>
                      /\ shouldProcessThumbnail(userSettings, <<>>,
                                                things[j + 1].domain).result
                  => /\ batches[BatchOf(i)].handed[j - batches[BatchOf(i)].first
                                                     + 1][1].thumbnailHash
                            = things[j + 1].thumbnail
                     /\ \A k \in LinksOf(BatchOf(i)) \ failed :
                            k \in Items /\ ItemOf(k).thumbnailHash
                                               = ItemOf(j).thumbnailHash
                                       /\ ItemOf(k).domain = ItemOf(j).domain
                                => SameGroup(j, k)
        /\ i \in Processed =>
               \A j \in Processed \cap Items :
                   things[i + 1].url # ""
                       /\ things[j + 1].url = things[i + 1].url
                   => SameGroup(i, j)

\* The hash of link 0 failed; it is grouped with link 1 by URL, and link 1
\* with link 2 by fingerprint, all three found in one batch.
C14_Witness ==
    /\ failed = {0}
    /\ Len(batches) = 1
    /\ Processed = {0, 1, 2}
    /\ Items = {0, 1, 2}
    /\ ItemOf(0).url = "A" /\ ItemOf(0).thumbnailHash = <<>>
    /\ ItemOf(1).url = "A" /\ ItemOf(1).thumbnailHash = H0
    /\ ItemOf(2).url = "" /\ ItemOf(2).thumbnailHash = H0
    /\ Memberships(df) = {{0, 1, 2}}

\* Every getLinkInfo of batch b has resolved.
HashTasksSettled(b) ==
    /\ b \in 1..Len(batches)
    /\ \A i \in LinksOf(b) : things[i + 1].visible => infos[i + 1] # <<>>

\* processLinks has run once for batch b.
ClusteredOnce(b) == b \in 1..Len(batches) /\ batches[b].passes = 1

\* C15: once every hash task of a batch has settled, processLinks for that
\* batch eventually runs, and it never runs a second time.
C15_SettledBatchIsClustered ==
    /\ \A b \in 1..MaxBatchLinks :
           HashTasksSettled(b) ~> ClusteredOnce(b)
    /\ [](\A b \in 1..Len(batches) : batches[b].passes <= 1)

\* The second batch was clustered after its hash arrived, while the first
\* batch still waits for a hash.
C15_Witness ==
    /\ Len(batches) = 2
    /\ batches[1].pc = "awaiting" /\ ~HashTasksSettled(1)
    /\ batches[2].passes = 1
    /\ \E i \in LinksOf(2) : i \in Items /\ ItemOf(i).thumbnailHash # <<>>

\* C16: whatever the order in which the hashes of a batch arrive, the
\* clustering pass is handed the linkInfos of the batch's links in index
\* order (processLink is called on link first, first + 1, ...), and it
\* starts only when every getLinkInfo of the batch has resolved.
C16_IndexOrderAfterAllSettled ==
    \A b \in 1..Len(batches) :
        batches[b].passes > 0 =>
            /\ batches[b].unsettled = 0
            /\ HashTasksSettled(b)
            /\ Len(batches[b].handed) = Len(batches[b].values)
            /\ \A k \in 1..Len(batches[b].handed) :
                   /\ batches[b].handed[k] = infos[batches[b].first + k]
                   /\ things[batches[b].first + k].visible
                          => /\ batches[b].handed[k] # <<>>
                             /\ batches[b].handed[k][1].thing
                                    = batches[b].first + k - 1

\* In a clustered batch of three links the hash of link 2 failed, while
\* those of links 0 and 1 arrived: the arrival orders differ, the pass is
\* the same.
C16_Witness ==
    /\ Len(batches) = 1
    /\ batches[1].passes = 1
    /\ Len(batches[1].handed) = 3
    /\ failed = {2}
    /\ Items = {0, 1, 2}
    /\ ItemOf(0).thumbnailHash # <<>>
    /\ ItemOf(1).thumbnailHash # <<>>

\* The primary of record rec is visible, and its duplicates are visible
\* exactly when rec.showDuplicates is true.
VisibleByFlag(display, rec) ==
    /\ display[rec.links[1]] = ""
    /\ \A k \in 2..Len(rec.links) :
           display[rec.links[k]] = IF rec.showDuplicates THEN "" ELSE "none"

\* C17: in every state of the script, whatever way clustering passes and
\* toggle clicks interleave, each group's primary is visible and each of
\* its duplicates is visible exactly when the group's showDuplicates is
\* true; showDuplicates is false until a toggle is clicked; and a
\* clustering pass leaves the showDuplicates of every record as it was.
C17_VisibilityFollowsFlag ==
    /\ [](\A r \in Surviving(df.dupRecord) :
             /\ VisibleByFlag(df.display, df.records[r])
             /\ clicks = 0 => ~df.records[r].showDuplicates)
    /\ [][clicks' = clicks =>
             \A r \in DOMAIN df.records :
                 df.records[r].showDuplicates' = df.records[r].showDuplicates
          ]_vars

\* Links 0 and 1 were grouped and their toggle clicked; a later pass then
\* put link 2 into the group, and it is shown like link 1.
C17_Witness ==
    /\ clicks = 1
    /\ Len(batches) = 2
    /\ batches[1].pc = "done" /\ batches[2].pc = "done"
    /\ batches[2].first = 2
    /\ Surviving(df.dupRecord) = {0}
    /\ df.records[0].links = <<0, 1, 2>>
    /\ df.records[0].showDuplicates
    /\ df.display[1] = "" /\ df.display[2] = ""

\* A group whose duplicates were shown was absorbed by a link of smaller
\* index clustered later: its links are hidden again.
C17_WitnessAbsorbed ==
    /\ clicks = 1
    /\ Len(batches) = 2
    /\ batches[1].pc = "done" /\ batches[2].pc = "done"
    /\ batches[2].first = 1
    /\ 1 \in DOMAIN df.records /\ df.records[1].showDuplicates
    /\ Surviving(df.dupRecord) = {0}
    /\ df.records[0].links = <<0, 1, 2>>
    /\ ~df.records[0].showDuplicates
    /\ df.display[1] = "none" /\ df.display[2] = "none"

\* The record whose tagline link t carries: the record made for t, while
\* its taglineElt is attached.
HasTagline(t) ==
    t \in DOMAIN df.records /\ df.records[t].taglineElt = "attached"

\* C18: a link carries a duplicate-count tagline exactly when it is the
\* primary of a surviving group with at least one duplicate; the count
\* shown is that group's number of duplicates, with the noun in the
\* singular for one; and a link absorbed into another group has none.
C18_TaglineOnPrimariesWithDuplicates ==
    \A t \in 0..(nextIndex - 1) :
        /\ HasTagline(t) <=>
               /\ t \in DOMAIN df.records
               /\ t \in Surviving(df.dupRecord)
               /\ df.records[t].links[1] = t
               /\ Len(df.records[t].links) > 1
        /\ HasTagline(t) =>
               df.records[t].countElt =
                   <<Len(df.records[t].links) - 1,
                     IF Len(df.records[t].links) = 2 THEN "duplicate"
                     ELSE "duplicates">>
        /\ t \in DOMAIN df.records /\ t \notin Surviving(df.dupRecord)
               => df.records[t].taglineElt \in {"none", "removed"}

\* Link 1 had a tagline counting one duplicate; link 0, clustered later,
\* absorbed its group: link 1's tagline is removed and link 0's counts two.
C18_Witness ==
    /\ Len(batches) = 2
    /\ batches[1].pc = "done" /\ batches[2].pc = "done"
    /\ Surviving(df.dupRecord) = {0}
    /\ df.records[0].taglineElt = "attached"
    /\ df.records[0].countElt = <<2, "duplicates">>
    /\ df.records[1].taglineElt = "removed"
    /\ df.records[2].taglineElt = "none"

\* The duplicates of record rec.
DuplicatesOf(rec) == {rec.links[k] : k \in 2..Len(rec.links)}

MainRuns == mainState = "observing" /\ errors = <<>>

\* C20: on a legacy search page main gets the links of #siteTable, numbers
\* them and clusters them as on a listing page, and raises no error.
C20_LegacySearchPageRuns ==
    pageType = LEGACY_SEARCH_PAGE /\ mainState # "start" => MainRuns

\* On a listing page main does run.
ListingPageRuns ==
    pageType = LISTING_PAGE /\ mainState \notin {"none", "start"} => MainRuns

\* On a legacy search page no link ever gets an index.
LegacySearchPageIdle ==
    pageType = LEGACY_SEARCH_PAGE =>
        nextIndex = 0 /\ batches = <<>> /\ df.records = <<>>

(***************************************************************************)
(* bitAppender                                                             *)
(***************************************************************************)

\* Bit number b (0 the lowest) of the byte x.
BitOfByte(x, b) == (x \div (2 ^ b)) % 2

\* Byte j of the array holds bits 8j .. 8j+7 of the stream, the first of
\* them in its highest bit.
ByteHoldsBits(j) ==
    \A i \in (8 * j)..(8 * j + 7) :
        BitOfByte(hash[(i \div 8) + 1], 7 - (i % 8))
            = (IF stream[i + 1] THEN 1 ELSE 0)

\* C23: when 64 bits have been supplied to the generator bitAppender(arr)
\* returned, all 8 bytes of arr have been written, no bit is left pending,
\* and bit i of the sequence is bit 7 - (i mod 8) of byte floor(i / 8);
\* before that, every byte whose 8 bits were supplied already holds them.
C23_BitsStoredMsbFirst ==
    hashGen # <<>> =>
        /\ \A j \in 0..(HashBytes - 1) : 8 * (j + 1) <= fed => ByteHoldsBits(j)
        /\ fed = HashBits =>
               /\ hashGen.byteIndex = HashBytes
               /\ hashGen.bitCount = 0
               /\ \A j \in 0..(HashBytes - 1) : ByteHoldsBits(j)

\* All 64 bits were supplied, bit 9 the only one set: byte 1 is 0x40.
C23_Witness ==
    /\ fed = HashBits
    /\ \A i \in 1..HashBits : stream[i] <=> i = 10
    /\ hash = <<0, 64, 0, 0, 0, 0, 0, 0>>

(***************************************************************************)
(* getImageHash                                                            *)
(***************************************************************************)

\* The names getImageHash's switch knows.
RecognisedNames ==
    {HashFunction.DIFFERENCE_HASH, HashFunction.DCT_HASH,
     HashFunction.WAVELET_HASH}

\* The hash function a recognised name stands for.
NamedFunction(name) ==
    CASE name = HashFunction.DIFFERENCE_HASH -> "getDiffHash"
      [] name = HashFunction.DCT_HASH -> "getDctHash"
      [] name = HashFunction.WAVELET_HASH -> "getWaveletHash"

\* The call hashed its image: it threw nothing and a hash function ran.
Hashed(call) == call.thrown = "" /\ call.callee # ""

\* C21: getImageHash throws "Image not complete" for an incomplete image,
\* "Image broken" for a complete image of natural width 0, and "Invalid
\* hash function" for a usable image with a name its switch does not know;
\* it hashes only a complete image of non-zero natural width under a
\* recognised name, with the function of that name and no other, and a
\* call that throws runs no hash function and returns nothing.
C21_HashOnlyForUsableImageAndKnownName ==
    \A n \in 1..Len(hashCalls) :
        LET call == hashCalls[n]
            usable == call.img.complete /\ call.img.naturalWidth # 0
            known == call.hashFunction \in RecognisedNames
        IN /\ ~call.img.complete => call.thrown = "Image not complete"
           /\ call.img.complete /\ call.img.naturalWidth = 0
                  => call.thrown = "Image broken"
           /\ usable /\ ~known => call.thrown = "Invalid hash function"
           /\ usable /\ known
                  => Hashed(call) /\ call.callee = NamedFunction(call.hashFunction)
           /\ Hashed(call) => usable /\ known
           /\ call.thrown # ""
                  => call.callee = "" /\ ~call.returned /\ call.value = <<>>
           /\ call.returned /\ call.callee = "getDiffHash"
                  => Len(call.value) = HashBytes

\* A usable image was refused under the name of an enum key, and then
\* hashed under the name "diffHash".
C21_Witness ==
    /\ Len(hashCalls) = 2
    /\ hashCalls[1].img = hashCalls[2].img
    /\ hashCalls[1].hashFunction = "DCT_HASH"
    /\ hashCalls[1].thrown = "Invalid hash function"
    /\ hashCalls[2].hashFunction = "diffHash"
    /\ hashCalls[2].returned
    /\ Len(hashCalls[2].value) = HashBytes

\* getDiffHash returns the same bytes for the same canvas data whether it
\* built its table MC3 in that call or found it from a call before, and
\* the table, once built, stays as it was built.
DiffHashRepeatable ==
    /\ MC3 \in {<<>>, MC3Table}
    /\ \A m, n \in 1..Len(hashCalls) :
           /\ hashCalls[m].returned /\ hashCalls[n].returned
           /\ hashCalls[m].callee = "getDiffHash"
           /\ hashCalls[n].callee = "getDiffHash"
           /\ getImagePixels(hashCalls[m].img) = getImagePixels(hashCalls[n].img)
           => hashCalls[m].value = hashCalls[n].value

\* The same picture was hashed twice by getDiffHash, and another picture
\* gave other bytes.
DiffHashRepeated ==
    /\ Len(hashCalls) = 2
    /\ hashCalls[1].callee = "getDiffHash" /\ hashCalls[2].callee = "getDiffHash"
    /\ hashCalls[2].returned
    /\ hashCalls[1].img.picture = hashCalls[2].img.picture
    /\ hashCalls[1].value = hashCalls[2].value
    /\ hashCalls[1].value # <<0, 0, 0, 0, 0, 0, 0, 0>>

\* The table mooreCurve(3) gives is the table written out.
MooreCurveTabled == NewMC3 = MC3Table

(***************************************************************************)
(* C24: the radius query an exact hit skips                                *)
(***************************************************************************)
\* updateThumbMap as it would be if an exact hit did not return before the
\* radius query: after the merge with the node the table holds, the node is
\* merged with each node findAll yields for its fingerprint as well.
updateThumbMapAlsoQuerying(st, linkInfo, node) ==
    LET tk == ThumbMapKey(st.df, linkInfo.domain)
        exactHit == /\ tk \in DOMAIN st.df.thumbMaps
                    /\ bufToString(linkInfo.thumbnailHash)
                           \in DOMAIN st.df.thumbMaps[tk].map
        done == updateThumbMap(st, linkInfo, node)
    IN IF exactHit /\ st.df.useBk
       THEN MergeWithEach(done, node,
                findAll(st.df.thumbMaps[tk].bkMap, 1,
                        Int32Array(linkInfo.thumbnailHash),
                        st.df.maxHammingDistance))
       ELSE done

\* processLink with that updateThumbMap.
processLinkAlsoQuerying(st, li) ==
    IF li = <<>> THEN st
    ELSE
    LET linkInfo == li[1]
        node == linkInfo.thing
        st0 == [st EXCEPT !.df.parent = @ @@ (node :> Null),
                          !.df.rank = @ @@ (node :> 0),
                          !.df.dupRecord = @ @@ (node :> <<node>>),
                          !.df.records = @ @@ (node :> DupRecord(node))]
        st1 == IF linkInfo.url # "" THEN updateUrlMap(st0, linkInfo, node)
               ELSE st0
    IN IF linkInfo.thumbnailHash # <<>>
       THEN updateThumbMapAlsoQuerying(st1, linkInfo, node)
       ELSE st1

\* processLinkAlsoQuerying on each linkInfo in turn.
RECURSIVE AlsoQueryingEach(_, _)
AlsoQueryingEach(st, linkInfos) ==
    IF linkInfos = <<>> THEN st
    ELSE AlsoQueryingEach(processLinkAlsoQuerying(st, linkInfos[1]),
                          Tail(linkInfos))

\* The finder that queried the BK-tree for exact hits too, after the
\* linkInfos of the page.
AlsoQuerying ==
    AlsoQueryingEach(
        [df |-> FinderOnPage([maxHammingDistance |-> df.maxHammingDistance,
                              partitionByDomain |-> df.partitionByDomain],
                             Len(infos)),
         merged |-> <<>>],
        infos).df

\* The items whose fingerprint was an exact hit in the table of their
\* partition.
ExactHits ==
    {j \in Items :
         /\ ItemOf(j).thumbnailHash # <<>>
         /\ \E i \in Items :
                /\ i < j
                /\ ItemOf(i).thumbnailHash = ItemOf(j).thumbnailHash
                /\ PartitionOf(df, i) = PartitionOf(df, j)}

\* C24: for every sequence of items, the sets of the disjoint-set forest
\* once the items are processed are those of a finder that ran the radius
\* query, and merged with every node it yields, for the exact hits as well.
C24_SkippedQueryIsNeutral ==
    (Clustered /\ version = "current") =>
        SetsOf(df.parent) = SetsOf(AlsoQuerying.parent)

\* An exact hit was processed for which the radius query yields two nodes,
\* the second added to the tree after the fingerprint of the hit.
C24_Witness ==
    /\ Clustered
    /\ version = "current"
    /\ \E j \in ExactHits :
           LET bkMap == df.thumbMaps[PartitionOf(df, j)].bkMap
               others == findAll(bkMap, 1,
                                 Int32Array(ItemOf(j).thumbnailHash),
                                 df.maxHammingDistance)
           IN /\ Len(others) >= 2
              /\ \E k \in 1..Len(others) :
                     /\ others[k] < j
                     /\ \E i \in Items :
                            /\ i < others[k]
                            /\ ItemOf(i).thumbnailHash
                                   = ItemOf(j).thumbnailHash

(***************************************************************************)
(* C25: which nodes carry a dupRecord                                      *)
(***************************************************************************)
\* In a finder of version ver with these parent pointers, dupRecord fields
\* and records: the nodes with a dupRecord are the representatives, each
\* carries one record, whose members are the nodes of its set, and no
\* record is carried by two nodes.
RecordsOnRepresentatives(ver, parent, dupRecord, records) ==
    /\ \A n \in DOMAIN parent :
           /\ dupRecord[n] # <<>> <=> parent[n] = Null
           /\ parent[n] = Null =>
                  /\ Len(dupRecord[n]) = 1
                  /\ LET members == MembersOf(ver, records[dupRecord[n][1]])
                     IN /\ Range(members) = SetOf(parent, n)
                        /\ Len(members) = Cardinality(SetOf(parent, n))
    /\ \A n, m \in DOMAIN parent :
           (n # m /\ dupRecord[n] # <<>> /\ dupRecord[m] # <<>>)
               => Range(dupRecord[n]) \cap Range(dupRecord[m]) = {}

\* C25: after every processLinks call of the current version, and after
\* every mergeDuplicates call of the earlier one, a node carries a dupRecord
\* exactly when it is a representative; the record is one DupRecord whose
\* member list is the node's set, and no two nodes carry the same record.
C25_RecordOnRepresentativeOnly ==
    Settled =>
        /\ RecordsOnRepresentatives(version, df.parent, df.dupRecord,
                                    df.records)
        /\ version = "earlier" =>
               \A k \in 1..Len(df.afterMerge) :
                   RecordsOnRepresentatives(version, df.afterMerge[k].parent,
                                            df.afterMerge[k].dupRecord,
                                            df.afterMerge[k].records)

\* A set of three nodes or more whose representative is not the primary
\* link of the record it carries, in the current version after two
\* processLinks calls and in the earlier one after two merges.
C25_Witness ==
    /\ Settled
    /\ pending = <<>>
    /\ \E n \in DOMAIN df.parent :
           /\ df.parent[n] = Null
           /\ Cardinality(SetOf(df.parent, n)) >= 3
           /\ df.dupRecord[n] # <<n>>
    /\ version = "current" => logStats(df.stats, batchStats) = "Found, total"
    /\ version = "earlier" => Len(df.afterMerge) >= 2

(***************************************************************************)
(* C26: the shape of the BK-tree                                           *)
(***************************************************************************)
\* The nodes of the subtree of tree t rooted at node n.
RECURSIVE Subtree(_, _)
Subtree(t, n) ==
    {n} \cup UNION {Subtree(t, t[n].children[d]) : d \in DOMAIN t[n].children}

\* In tree t every key below slot d of a node differs from the node's key
\* in d bits, and no node has a child in slot 0.
DistanceSlots(t) ==
    \A n \in 1..Len(t) :
        /\ 0 \notin DOMAIN t[n].children
        /\ \A d \in DOMAIN t[n].children :
               \A m \in Subtree(t, t[n].children[d]) :
                   DifferingBits(t[n].key, t[m].key) = d

\* C26: after any sequence of add calls, every key in the subtree below
\* slot d of a node is at Hamming distance d from the node's key, and
\* slot 0 is never occupied.
C26_ChildSlotIsDistance ==
    bk # <<>> => DistanceSlots(bk)

\* Two slots of the root are occupied and one of its children has a child.
C26_Witness ==
    /\ bk # <<>>
    /\ Cardinality(DOMAIN bk[1].children) >= 2
    /\ \E d \in DOMAIN bk[1].children :
           bk[bk[1].children[d]].children # <<>>

(***************************************************************************)
(* C27: the BK-tree and the exact-match table of a partition               *)
(***************************************************************************)
\* The finder after each processLink call of the processLinks call that is
\* due on the pending linkInfos, and before the first.
AfterEachProcessLink ==
    {ProcessEach([df |-> df, merged |-> <<>>], SubSeq(pending, 1, k)).df :
         k \in 0..Len(pending)}

\* The items finder d has processed whose fingerprint h is kept in the
\* table of key tk.
ItemsWith(d, tk, h) ==
    {i \in DOMAIN d.parent :
         /\ ItemOf(i).thumbnailHash = h
         /\ ThumbMapKey(d, ItemOf(i).domain) = tk}

\* The nodes of BK-tree t whose key is fingerprint h.
BkNodesWith(t, h) == {n \in 1..Len(t) : t[n].key = Int32Array(h)}

\* In every table of finder d the BK-tree holds the fingerprints the map
\* holds, each in one node, and both give the first item that had it.
TreeMatchesTable(d) ==
    \A tk \in DOMAIN d.thumbMaps :
        LET map == d.thumbMaps[tk].map
            bkMap == d.thumbMaps[tk].bkMap
        IN /\ DOMAIN map = {bufToString(h) :
                                h \in {g \in HashBuffers :
                                           ItemsWith(d, tk, g) # {}}}
           /\ \A n \in 1..Len(bkMap) :
                  \E h \in HashBuffers : bkMap[n].key = Int32Array(h)
           /\ \A h \in HashBuffers :
                  IF bufToString(h) \in DOMAIN map
                  THEN /\ Cardinality(BkNodesWith(bkMap, h)) = 1
                       /\ \A n \in BkNodesWith(bkMap, h) :
                              bkMap[n].value = map[bufToString(h)]
                       /\ \A i \in ItemsWith(d, tk, h) :
                              map[bufToString(h)] <= i
                       /\ map[bufToString(h)] \in ItemsWith(d, tk, h)
                  ELSE BkNodesWith(bkMap, h) = {}

\* C27: with maxHammingDistance > 0, after every processLink call the
\* BK-tree of each thumbnail partition holds exactly the fingerprints of
\* the partition's exact-match table, each in one node, and both map a
\* fingerprint to the node of the first item that had it.
C27_TreeKeysAreTableKeys ==
    (version = "current" /\ df.maxHammingDistance > 0) =>
        \A d \in AfterEachProcessLink : TreeMatchesTable(d)

\* A partition whose tree holds two fingerprints, one of which a second
\* item had as well.
C27_Witness ==
    /\ version = "current"
    /\ df.maxHammingDistance > 0
    /\ pending = <<>>
    /\ \E tk \in DOMAIN df.thumbMaps :
           /\ Len(df.thumbMaps[tk].bkMap) >= 2
           /\ \E h \in HashBuffers : Cardinality(ItemsWith(df, tk, h)) >= 2

(***************************************************************************)
(* C28: the radius query and the insertion                                 *)
(***************************************************************************)
\* The keys of BK-tree t.
KeysOf(t) == {t[n].key : n \in 1..Len(t)}

\* While the loop over findAll is under way: the tree is the one findAll
\* was called on and does not hold the item's fingerprint, and the nodes
\* yielded are nodes of items processed before, not the item's own; at the
\* end of the loop they are all the nodes findAll has to yield.
QueryOnTreeBefore(q) ==
    LET linkInfo == q.li[1]
        key == Int32Array(linkInfo.thumbnailHash)
    IN /\ LoopTree = q.tree
       /\ key \notin KeysOf(LoopTree)
       /\ \A k \in 1..Len(q.values) :
              /\ q.values[k] # linkInfo.thing
              /\ q.values[k] \in DOMAIN q.before.parent
       /\ q.done => q.values = findAll(q.tree, 1, key, df.maxHammingDistance)

\* A step changes the tree of a loop under way only when the generator has
\* ended, and then by adding one node, with the item's fingerprint and the
\* item's node.
TreeChangesAfterLoop ==
    \A q \in Range(bkQuery) :
        LET linkInfo == q.li[1]
            tk == ThumbMapKey(df, linkInfo.domain)
            now == df.thumbMaps[tk].bkMap
            then == df'.thumbMaps[tk].bkMap
        IN then # now =>
               /\ q.done
               /\ bkQuery' = <<>>
               /\ Len(then) = Len(now) + 1
               /\ \A n \in 1..Len(now) :
                      then[n].key = now[n].key /\ then[n].value = now[n].value
               /\ then[Len(then)].key = Int32Array(linkInfo.thumbnailHash)
               /\ then[Len(then)].value = linkInfo.thing

\* C28: for an item whose fingerprint misses the exact-match table the
\* radius query runs to its end before the fingerprint is inserted: the
\* tree is not modified while findAll is traversing it, and the query
\* yields only nodes of items processed before, never the item's own node.
C28_QueryCompletesBeforeAdd ==
    /\ [](\A q \in Range(bkQuery) : QueryOnTreeBefore(q))
    /\ [][TreeChangesAfterLoop]_vars

\* The generator is inside a nested findAll and has yielded a node.
C28_Witness ==
    /\ bkQuery # <<>>
    /\ ~bkQuery[1].done
    /\ Len(bkQuery[1].frames) >= 2
    /\ Len(bkQuery[1].values) >= 1

\* Taken one next() at a time, processLinks leaves the finder and returns
\* the batch stats of the processLinks operator.
LoopIsProcessLinks ==
    [][\A q \in Range(bkQuery) :
           bkQuery' = <<>> =>
               /\ df' = processLinks(q.before, pending).df
               /\ batchStats' = processLinks(q.before, pending).batchStats]_vars

(***************************************************************************)
(* C29: "Primary link mismatch"                                            *)
(***************************************************************************)
\* C29: updateLinks never throws "Primary link mismatch": in every
\* processLinks call the merged list of links handed to the primary record
\* starts with that record's own primary link.
C29_NoPrimaryLinkMismatch ==
    version = "current" => ~df.thrown

\* updateLinks was called on a primary record with merged links that take
\* in those of a later record which had duplicates of its own.
C29_Witness ==
    /\ version = "current"
    /\ pending = <<>>
    /\ ~df.thrown
    /\ \E r \in Surviving(df.dupRecord) :
           /\ Len(df.records[r].links) >= 3
           /\ \E o \in DOMAIN df.records :
                  /\ r < o
                  /\ o \notin Surviving(df.dupRecord)
                  /\ Len(df.records[o].links) >= 2
                  /\ Range(df.records[o].links)
                         \subseteq Range(df.records[r].links)

(***************************************************************************)
(* C30: find terminates                                                    *)
(***************************************************************************)
\* Following the parent pointers from n leads to a node without parent in
\* at most k steps.
RECURSIVE EndsWithin(_, _, _)
EndsWithin(parent, n, k) ==
    \/ parent[n] = Null
    \/ k > 0 /\ EndsWithin(parent, parent[n], k - 1)

\* The parent pointers contain no cycle.
Acyclic(parent) ==
    \A n \in DOMAIN parent :
        EndsWithin(parent, n, Cardinality(DOMAIN parent))

\* A find() that returns, returns the representative of the node it was
\* called on, a node without parent.
ReturnsRepresentative ==
    (ds.finding # <<>> /\ ds'.finding = <<>>) =>
        /\ ds.parent[ds.finding[1].node] = Null
        /\ ds.finding[1].node = RootOf(ds.parent, ds.finding[1].this)
        /\ ds.finding[1].this \in JoinedWith(ds.finding[1].node)

\* C30: the parent pointers of every forest reached contain no cycle, also
\* between two turns of the loop of find() while it points the nodes it
\* visits to their grandparents; every find() call ends, and returns a
\* node whose parent is null.
C30_FindTerminates ==
    /\ [](Acyclic(ds.parent))
    /\ [][ReturnsRepresentative]_vars
    /\ (ds.finding # <<>>) ~> (ds.finding = <<>>)

\* find() has pointed the node it was called on to its grandparent and has
\* a turn of its loop to go.
C30_Witness ==
    /\ ds.finding # <<>>
    /\ ds.finding[1].node # ds.finding[1].this
    /\ ds.parent[ds.finding[1].node] # Null
    /\ ds.parent[ds.finding[1].this] = ds.parent[ds.finding[1].node]

(***************************************************************************)
(* C31: union by rank                                                      *)
(***************************************************************************)
\* What a.union(b) does to forest ds: u is what the call yields.
UnionByRank(a, b) ==
    LET u == union(ds, a, b)
        ra == RootOf(ds.parent, a)
        rb == RootOf(ds.parent, b)
        low == IF ds.rank[ra] < ds.rank[rb] THEN ra ELSE rb
        high == IF ds.rank[ra] < ds.rank[rb] THEN rb ELSE ra
    IN IF ra = rb
       THEN /\ u.rank = ds.rank
            /\ u.root = ra
            /\ u.parent[ra] = Null
       ELSE /\ u.parent[low] = high
            /\ u.parent[high] = Null
            /\ u.root = high
            /\ ds.rank[low] <= ds.rank[high]
            /\ \A n \in DSNodes \ {high} : u.rank[n] = ds.rank[n]
            /\ u.rank[high] = ds.rank[high]
                                  + (IF ds.rank[low] = ds.rank[high] THEN 1
                                     ELSE 0)

\* Every node with a parent has a smaller rank than its parent.
RankBelowParent ==
    \A n \in DSNodes :
        ds.parent[n] # Null => ds.rank[n] < ds.rank[ds.parent[n]]

\* C31: union of nodes of different sets puts the root of lower rank under
\* the root of higher rank and returns that root; only its rank changes,
\* by one and only when the two ranks were equal; union within a set
\* changes no rank.  So no rank ever decreases, and every node with a
\* parent has a rank smaller than its parent's.
C31_UnionByRank ==
    /\ [](\A a, b \in DSNodes : UnionByRank(a, b))
    /\ [](RankBelowParent)
    /\ [][\A n \in DSNodes : ds'.rank[n] >= ds.rank[n]]_vars

\* A root of rank 2 has taken a fifth node under it: two unions of roots
\* of equal rank and one of roots of different ranks.
C31_Witness ==
    /\ ds # <<>>
    /\ \E n \in DSNodes :
           /\ ds.parent[n] = Null
           /\ ds.rank[n] = 2
           /\ Cardinality(JoinedWith(n)) = 5
           /\ Cardinality({m \in DSNodes : ds.rank[m] = 1}) = 1

(***************************************************************************)
(* C32                                                                     *)
(***************************************************************************)
\* A hash was computed for message m: an image was fetched and the response
\* carries its hash.
HashComputed(m) == m.fetched # <<>> /\ m.response.hash # <<>>

\* The listener's part: a fetch happens only for a host name that ends with
\* the thumbnail domain, and at https:; the promise is fulfilled, with a
\* response that has a hash or an error and not both; a fetch that failed
\* and a hash that failed give the error.
ListenerAnswers(m) ==
    LET url == URL(m.message.url, [protocol |-> m.sender.protocol,
                                   hostname |-> m.sender.hostname])
    IN /\ m.fetched # <<>> =>
             /\ ~url.thrown
             /\ endsWith(url.hostname, ThumbsDomain)
             /\ m.fetched[1].hostname = url.hostname
             /\ m.fetched[1].protocol = "https:"
       /\ m.settled = "fulfilled"
       /\ (m.response.hash = <<>>) # (m.response.error = <<>>)
       /\ m.response.hash # <<>> => HashComputed(m) /\ m.outcome.thrown = ""
       /\ (url.thrown \/ ~endsWith(url.hostname, ThumbsDomain)) =>
             m.fetched = <<>> /\ m.response.error # <<>>
       /\ m.outcome.thrown # "" => m.response.error # <<>>

\* The shim's part: a response without hash is thrown as an error, one with
\* a hash gives back the bytes the background script computed.
ShimAnswers(m) ==
    m.shim # <<>> =>
        IF m.response.hash = <<>>
        THEN m.shim[1].thrown # <<>> /\ m.shim[1].returned = <<>>
        ELSE m.shim[1].thrown = <<>> /\ m.shim[1].returned = <<m.outcome.hash>>

\* C32: the background listener computes a hash only for a URL whose host
\* name ends with '.thumbs.redditmedia.com' and fetches it over https; every
\* message, with an invalid domain, a failed fetch or a failed hash too, is
\* answered with {hash} or {error} by a promise that is never rejected; and
\* the shim throws on a response without hash.
C32_ListenerAlwaysAnswers ==
    \A k \in 1..Len(messages) :
        ListenerAnswers(messages[k]) /\ ShimAnswers(messages[k])

\* A thumbnail asked for at http: was fetched at https: and its hash came
\* back through the shim as the bytes computed.
C32_Witness ==
    \E k \in 1..Len(messages) :
        /\ messages[k].message.url.form = "absolute"
        /\ messages[k].message.url.protocol = "http:"
        /\ HashComputed(messages[k])
        /\ messages[k].shim # <<>>
        /\ messages[k].shim[1].returned = <<(<<1, 35, 69, 103, 137, 171, 205, 239>>)>>

\* The three ways to an error have all been taken: a host outside the
\* thumbnail domain, a fetch that failed, and the shim throwing on it.
C32_ErrorsReached ==
    \E k \in 1..Len(messages) :
        /\ messages[k].fetched # <<>>
        /\ messages[k].outcome.thrown = "Image failed to load"
        /\ messages[k].shim # <<>>
        /\ messages[k].shim[1].thrown
               = <<"Background script error: ", "Failed to get image hash">>

(***************************************************************************)
(* C33                                                                     *)
(***************************************************************************)
\* The points mooreCurve(3) yields.
MooreCurve3 == mooreCurve(3)

\* Two cells of the grid next to each other in a row or in a column.
OrthogonallyAdjacent(p, q) ==
    \/ p[1] = q[1] /\ (p[2] = q[2] + 1 \/ q[2] = p[2] + 1)
    \/ p[2] = q[2] /\ (p[1] = q[1] + 1 \/ q[1] = p[1] + 1)

\* The point before point n on the loop: the last one before the first.
PointBefore(points, n) == points[IF n = 1 THEN Len(points) ELSE n - 1]

\* 64 points, each cell of the 8x8 grid once, every point next to the one
\* before it, the first next to the last.
ClosedTourOfGrid(points) ==
    /\ Len(points) = 64
    /\ \A x, y \in 0..7 :
           Cardinality({n \in 1..Len(points) : points[n] = <<x, y>>}) = 1
    /\ \A n \in 1..Len(points) :
           OrthogonallyAdjacent(PointBefore(points, n), points[n])

\* The samples getDiffHash takes of each image, written out once: G[c] is
\* entry c + 1.
SamplesOf ==
    [img \in Images |->
        SubSeq([c \in 1..64 |->
                   DiffHashSum(getImagePixels(img), (c - 1) \div 8,
                               (c - 1) % 8)], 1, 64)] @@ <<>>

\* mooreCurve(3) is such a tour.
MooreCurve3IsTour == ClosedTourOfGrid(MooreCurve3)

\* For each image, written out once: for every point of the curve, whether
\* the sample of the cell of the point before is below the sample of the
\* point's cell.
AlongTheCurve ==
    [img \in Images |->
        SubSeq([n \in 1..Len(MooreCurve3) |->
                   LET prev == PointBefore(MooreCurve3, n)
                       curr == MooreCurve3[n]
                   IN SamplesOf[img][8 * prev[2] + prev[1] + 1]
                          < SamplesOf[img][8 * curr[2] + curr[1] + 1]],
               1, Len(MooreCurve3))] @@ <<>>

\* C33: mooreCurve(3) yields 64 points that visit every cell of the 8x8 grid
\* once, consecutive points and the last and the first are orthogonally
\* adjacent; and every bit getDiffHash hands to its bit appender, the first
\* (wrap-around) one too, compares the samples G of two adjacent cells: the
\* cell of the point before and the cell of the point, G being indexed by
\* row (the point's y) and column (its x).
C33_BitsCompareAdjacentCells ==
    /\ MooreCurve3IsTour
    /\ MC3 # <<>> =>
           /\ Len(MC3) = Len(MooreCurve3)
           /\ \A n \in 1..Len(MC3) :
                  /\ MC3[n] \div 8 = MooreCurve3[n][2]
                  /\ MC3[n] % 8 = MooreCurve3[n][1]
    /\ (hashGen # <<>> /\ hashCalls # <<>>) =>
           stream = AlongTheCurve[hashCalls[Len(hashCalls)].img]

\* getDiffHash is at its loop over the curve for a picture whose columns
\* differ: the wrap-around bit compared (4, 7) with (3, 7) and is clear, and
\* the bit of the step from (0, 6) to (1, 6) is set.
C33_Witness ==
    /\ hashGen # <<>>
    /\ MC3 = NewMC3
    /\ hashCalls[Len(hashCalls)].img.picture = "columns"
    /\ PointBefore(MooreCurve3, 1) = <<4, 7>> /\ MooreCurve3[1] = <<3, 7>>
    /\ ~stream[1]
    /\ MooreCurve3[7] = <<0, 6>> /\ MooreCurve3[8] = <<1, 6>>
    /\ stream[8]

(***************************************************************************)
(* C34                                                                     *)
(***************************************************************************)
\* How many times v is in l.
TimesIn(l, v) == Cardinality({n \in 1..Len(l) : l[n] = v})

\* How many times v is in the arrays of A together.
RECURSIVE TimesInAll(_, _)
TimesInAll(A, v) ==
    IF A = <<>> THEN 0 ELSE TimesIn(Head(A), v) + TimesInAll(Tail(A), v)

\* C34: for a list A of arrays each sorted by the comparator, empty arrays
\* and every number of arrays included, mergeK(A, cmp) returns an array that
\* is sorted by the comparator and holds the elements of all the arrays,
\* each as many times as the arrays hold it; merge2 does so for two arrays.
C34_MergeIsSortedUnion ==
    \A n \in 1..Len(merges) :
        LET call == merges[n]
        IN call.callee # "" =>
           /\ SortedBy(call.returned, CompareFunction(call.compareFunction))
           /\ \A v \in MergeValues \cup {call.returned[k] :
                                            k \in 1..Len(call.returned)} :
                  TimesIn(call.returned, v) = TimesInAll(call.A, v)

\* mergeK was handed four arrays, an empty one among them and a longer one
\* before a shorter one, with an element that is in three of them and two
\* different elements that compare equal.
C34_Witness ==
    \E n \in 1..Len(merges) :
        /\ merges[n].callee = "mergeK"
        /\ merges[n].compareFunction = "byHalves"
        /\ merges[n].A = <<(<<3, 2>>), <<>>, <<2>>, <<1, 2>>>>
        /\ merges[n].returned = <<1, 2, 2, 3, 2>>

\* merge2 was handed an empty array and one with a repeated element.
C34_Merge2Reached ==
    \E n \in 1..Len(merges) :
        /\ merges[n].callee = "merge2"
        /\ merges[n].A = <<(<<>>), <<2, 2>>>>
        /\ merges[n].returned = <<2, 2>>

(***************************************************************************)
(* C35                                                                     *)
(***************************************************************************)
\* The items handed to processLink so far, by index: those of the batches
\* clustered; and those of them that are not null.
PassedToProcessLink == 0..(nextIndex - Len(pending) - 1)
NonNullProcessed == {i \in PassedToProcessLink : infos[i + 1] # <<>>}

\* The surviving records that hold item i.
HoldersOf(i) ==
    {r \in Surviving(df.dupRecord) :
        i \in Range(MembersOf(version, df.records[r]))}

\* C35: after every clustering pass the surviving records partition the
\* processed items: every non-null item handed to processLink is in exactly
\* one surviving record, once; a null item, or one not yet processed, is in
\* none; and the number of surviving groups plus stats.totalDups is the
\* number of non-null items processed so far.
C35_RecordsPartitionItems ==
    Settled =>
        /\ \A i \in 0..(nextIndex - 1) :
               IF i \in NonNullProcessed
               THEN /\ Cardinality(HoldersOf(i)) = 1
                    /\ \A r \in HoldersOf(i) :
                           TimesIn(MembersOf(version, df.records[r]), i) = 1
               ELSE HoldersOf(i) = {}
        /\ \A r \in Surviving(df.dupRecord) :
               Range(MembersOf(version, df.records[r])) \subseteq NonNullProcessed
        /\ Cardinality(Surviving(df.dupRecord)) + df.stats.totalDups
               = Cardinality(NonNullProcessed)

\* Four items were processed, the second of them null: the first and the
\* last are one group, the third is a group of its own.
C35_Witness ==
    /\ version = "current"
    /\ pending = <<>>
    /\ nextIndex = 4
    /\ infos[2] = <<>>
    /\ Surviving(df.dupRecord) = {0, 2}
    /\ df.records[0].links = <<0, 3>>
    /\ df.stats.totalDups = 1

\* The same in the earlier version of the script.
C35_EarlierReached ==
    /\ version = "earlier"
    /\ df.done
    /\ nextIndex = 4
    /\ infos[2] = <<>>
    /\ Surviving(df.dupRecord) = {0, 2}
    /\ df.records[0].duplicates = <<3>>
    /\ df.stats.totalDups = 1

(***************************************************************************)
(* C36                                                                     *)
(***************************************************************************)
\* Every batch found so far has been clustered.
AllBatchesClustered ==
    /\ batches # <<>>
    /\ \A b \in 1..Len(batches) : batches[b].pc = "done"

\* A step that gives nodes to items is the pass of one batch, and gives
\* them to the non-null items of that batch, all of them, and to no other.
PassOfOneBatch ==
    DOMAIN df'.parent # DOMAIN df.parent =>
        \E b \in 1..Len(batches) :
            /\ batches[b].pc = "awaiting" /\ batches'[b].pc = "done"
            /\ \A c \in (1..Len(batches)) \ {b} : batches'[c] = batches[c]
            /\ DOMAIN df'.parent
                   = DOMAIN df.parent
                         \cup {i \in LinksOf(b) : infos[i + 1] # <<>>}

\* C36: with several batches pending at once, a clustering pass handles one
\* batch as a whole (the passes do not interleave item by item), and in
\* whatever order the batches finish hashing and are clustered, once all
\* are clustered the groups, with their primaries (the smallest index, the
\* first member) and member orders, and the cumulative stats are those of
\* one pass by a fresh finder over all items in index order.
C36_AnyBatchOrderAsIndexOrder ==
    /\ [](AllBatchesClustered =>
              /\ ~df.thrown
              /\ Groups(df) = Groups(InOneBatch)
              /\ \A l \in Groups(df) :
                     \A k \in 1..Len(l) : l[1] <= l[k]
              /\ df.stats = InOneBatch.stats)
    /\ [][PassOfOneBatch]_vars

\* Two batches were pending at once and the second was clustered first:
\* links 0 and 1 of the first batch joined link 2 of the second in the last
\* pass, which counted a new group with duplicates for link 0.
C36_Witness ==
    /\ AllBatchesClustered
    /\ Len(batches) = 2
    /\ LinksOf(1) = {0, 1} /\ LinksOf(2) = {2}
    /\ Items = {0, 1, 2}
    /\ ItemOf(0).thumbnailHash = H0
    /\ ItemOf(1).thumbnailHash = H6
    /\ ItemOf(2).thumbnailHash = H3
    /\ Groups(df) = {<<0, 1, 2>>}
    /\ batchStats.numWithDups = 1

(***************************************************************************)
(* C37                                                                     *)
(***************************************************************************)
\* The members of the surviving record of the groups g (the records and the
\* nodes' dupRecord of a finder) that holds item i: <<>> when there is none.
GroupOf(ver, g, i) ==
    LET holders == {r \in Surviving(g.dupRecord) :
                       i \in Range(MembersOf(ver, g.records[r]))}
    IN IF holders = {} THEN <<>>
       ELSE MembersOf(ver, g.records[CHOOSE r \in holders : TRUE])

\* From the groups `before` to the groups `after`: an item that was a
\* duplicate is a duplicate; an item that was a primary and is none any
\* more is a duplicate in a group whose primary has a smaller index; and
\* the primary of an item's group has no larger index than it had.
PrimariesOnlyDescend(ver, before, after) ==
    \A i \in DOMAIN before.records :
        LET old == GroupOf(ver, before, i)
            new == GroupOf(ver, after, i)
        IN old # <<>> =>
               /\ new # <<>>
               /\ new[1] <= old[1]
               /\ old[1] # i => new[1] # i
               /\ (old[1] = i /\ new[1] # i) => new[1] < i

\* A step (a clustering pass, or the main loop of the earlier version)
\* leaves primaries as they were or lower.
PrimariesDescendInStep ==
    (Settled /\ df'.thrown = FALSE) => PrimariesOnlyDescend(version, df, df')

\* C37: a link that has become a duplicate never becomes a primary again; a
\* primary stops being one only by being absorbed into a group whose primary
\* has a smaller index; and the index of the primary of the group an item
\* is in never increases: over every clustering pass, and in the earlier
\* version over every mergeDuplicates call that merged.
C37_PrimariesOnlyDescend ==
    /\ [][PrimariesDescendInStep]_vars
    /\ [](version = "earlier" =>
              \A k \in 1..(Len(df.afterMerge) - 1) :
                  PrimariesOnlyDescend(version, df.afterMerge[k],
                                       df.afterMerge[k + 1]))

\* Link 1 was the primary of a group of its own duplicates and is now a
\* duplicate of link 0, after a later pass.
C37_Witness ==
    /\ version = "current"
    /\ pending = <<>>
    /\ 1 \in DOMAIN df.records
    /\ Len(df.records[1].links) = 2
    /\ 1 \notin Surviving(df.dupRecord)
    /\ GroupOf(version, df, 1)[1] = 0

\* In the earlier version two mergeDuplicates calls merged, the second
\* absorbing the group of primary 1 into that of primary 0.
C37_EarlierReached ==
    /\ version = "earlier"
    /\ df.done
    /\ \E k \in 1..(Len(df.afterMerge) - 1) :
           /\ GroupOf(version, df.afterMerge[k], 1) # <<>>
           /\ GroupOf(version, df.afterMerge[k], 1)[1] = 1
           /\ GroupOf(version, df.afterMerge[k + 1], 1)[1] = 0

(***************************************************************************)
(* C38                                                                     *)
(***************************************************************************)
\* The records that stop surviving in the step: those a pass counts in
\* totalDups when it takes them to be in its batch.
AbsorbedInStep ==
    {r \in DOMAIN df'.records :
        /\ r \notin Surviving(df'.dupRecord)
        /\ r \in DOMAIN df.records => r \in Surviving(df.dupRecord)}

\* The records that get their first duplicate in the step: those a pass
\* counts in numWithDups when it takes them to be in its batch.
GotDuplicatesInStep ==
    {r \in Surviving(df'.dupRecord) :
        /\ Len(df'.records[r].links) > 1
        /\ r \in DOMAIN df.records => Len(df.records[r].links) = 1}

\* The step is the pass of batch b.
PassOf(b) == batches[b].pc = "awaiting" /\ batches'[b].pc = "done"

\* The batch stats of the pass count the records of indices first..last.
BatchStatsCount(first, last) ==
    /\ batchStats'.totalDups
           = Cardinality(AbsorbedInStep \cap (first..last))
    /\ batchStats'.numWithDups
           = Cardinality(GotDuplicatesInStep \cap (first..last))

\* C38: the batch stats processLinks returns count only links of that
\* batch: every record counted in batchStats.totalDups or in
\* batchStats.numWithDups has its index in [startIndex, startIndex + batch
\* length), also when batches are clustered in another order than they
\* were found.
C38_BatchStatsCountOwnLinks ==
    [][\A b \in 1..Len(batches) :
           (PassOf(b) /\ ~df'.thrown) =>
               BatchStatsCount(batches[b].first,
                               batches[b].first + Len(batches[b].values) - 1)]_vars

\* What the code counts: the records of indices startIndex..endIndex, with
\* endIndex = startIndex + linkInfos.length, the index of the first link of
\* the batch found next.
BatchStatsCountToEndIndex ==
    [][\A b \in 1..Len(batches) :
           (PassOf(b) /\ ~df'.thrown
                /\ \E k \in 1..Len(Awaited(b)) : Awaited(b)[k] # <<>>) =>
               BatchStatsCount(batches[b].first,
                               batches[b].first + Len(batches[b].values))]_vars

\* The second batch (link 1) was clustered first, then the first (link 0):
\* its pass returned one duplicate, which is link 1.
ForeignLinkCounted ==
    /\ Len(batches) = 2
    /\ \A b \in 1..Len(batches) : batches[b].pc = "done"
    /\ LinksOf(1) = {0} /\ LinksOf(2) = {1}
    /\ Groups(df) = {<<0, 1>>}
    /\ batchStats = [numWithDups |-> 1, totalDups |-> 1]
    /\ logStats(df.stats, batchStats) = "Found"

\* As long as batches are clustered in the order they were found, the
\* batch stats count the batch's own links.
InOrderBatchStatsCountOwnLinks ==
    [][\A b \in 1..Len(batches) :
           (PassOf(b) /\ ~df'.thrown
                /\ \A c \in 1..Len(batches) :
                       c > b => batches[c].pc = "awaiting") =>
               BatchStatsCount(batches[b].first,
                               batches[b].first + Len(batches[b].values) - 1)]_vars

============================================================================
